---------------------------- MODULE Spec2Model ----------------------------
(***************************************************************************)
(* NetBox MCP server (netbox_mcp_server.py): the REST resource client, the *)
(* 21 tool handlers built on it, and the result envelope each one returns. *)
(*                                                                         *)
(* The server keeps no state between calls.  A state of the model is     *)
(* either the idle host or one completed call: which operation ran, its    *)
(* arguments, what the remote service answered, the outbound requests the  *)
(* call issued, the value it returned (or the exception it let go) and the *)
(* handler's local variables that its result was derived from.             *)
(***************************************************************************)
EXTENDS Integers, Sequences, FiniteSets, TLC

VARIABLES host, op, args, reply, requests, result, locals

vars == <<host, op, args, reply, requests, result, locals>>

(***************************************************************************)
(* Python / JSON values.  Every value carries its type tag, so that the    *)
(* handlers' isinstance tests and the difference between None, 0, "" and   *)
(* {} are part of the model.  A dict is a function from its keys.  Each    *)
(* type keeps its payload in a field of its own name, so two values of     *)
(* different types are unequal whatever they hold.                         *)
(***************************************************************************)
JNull == [t |-> "null"]
JBool(b) == [t |-> "bool", b |-> b]
JTrue == JBool(TRUE)
JFalse == JBool(FALSE)
JInt(n) == [t |-> "int", n |-> n]
JStr(s) == [t |-> "str", s |-> s]
JList(q) == [t |-> "list", items |-> q]
JDict(f) == [t |-> "dict", map |-> f]
EmptyDict == JDict([k \in {} |-> JNull])
\* The result of an f-string: its template and the values formatted into it.
FStr(tmpl, fmt_args) == [t |-> "fstr", tmpl |-> tmpl, args |-> fmt_args]

\* type(x).__name__
TypeName(x) ==
    CASE x.t = "null" -> "NoneType"
      [] x.t = "fstr" -> "str"
      [] OTHER -> x.t

IsDict(x) == x.t = "dict"
IsList(x) == x.t = "list"
IsStr(x) == x.t \in {"str", "fstr"}

\* Python truthiness (`if x:`, `x or y`).
Truthy(x) ==
    CASE x.t = "null" -> FALSE
      [] x.t = "bool" -> x.b
      [] x.t = "int"  -> x.n # 0
      [] x.t = "str"  -> x.s # ""
      [] x.t = "list" -> Len(x.items) > 0
      [] x.t = "dict" -> DOMAIN x.map # {}
      [] OTHER -> TRUE

\* d.update(other) on the key-value maps: other's entries win
Updated(d, other) ==
    [k \in DOMAIN d \cup DOMAIN other |-> IF k \in DOMAIN other THEN other[k] ELSE d[k]]

\* dict.get(key, default)
DictGet(d, k, default) == IF k \in DOMAIN d.map THEN d.map[k] ELSE default

\* The outcome of evaluating a piece of Python: a value, or a raised exception
\* with the text str(e) gives.
Return(x) == [kind |-> "return", val |-> x]
Raise(m) == [kind |-> "raise", msg |-> m]
Raised(r) == r.kind = "raise"

(***************************************************************************)
(* Strings.  A str is written as a TLA+ string; Spell gives the characters *)
(* of every string the model uses, and lower(), split() and the substring  *)
(* test `in` work on those characters.                                     *)
(***************************************************************************)
Spell ==
    "" :> <<>> @@
    "create site" :> <<"c","r","e","a","t","e"," ","s","i","t","e">> @@
    "SITE" :> <<"S","I","T","E">> @@
    "vlan" :> <<"v","l","a","n">> @@
    "to" :> <<"t","o">> @@
    "new  backup" :> <<"n","e","w"," "," ","b","a","c","k","u","p">> @@
    "available" :> <<"a","v","a","i","l","a","b","l","e">> @@
    "\tSite audit\n" :> <<"\t","S","i","t","e"," ","a","u","d","i","t","\n">> @@
    "CreateSiteAndLocations" :> <<"C","r","e","a","t","e","S","i","t","e","A","n","d","L","o","c","a","t","i","o","n","s">> @@
    "BackupConfigs" :> <<"B","a","c","k","u","p","C","o","n","f","i","g","s">> @@
    "ProvisionNewSite" :> <<"P","r","o","v","i","s","i","o","n","N","e","w","S","i","t","e">> @@
    "SiteAudit" :> <<"S","i","t","e","A","u","d","i","t">> @@
    "Script to create a new site and associated floors" :> <<"S","c","r","i","p","t"," ","t","o"," ","c","r","e","a","t","e"," ","a"," ","n","e","w"," ","s","i","t","e"," ","a","n","d"," ","a","s","s","o","c","i","a","t","e","d"," ","f","l","o","o","r","s">> @@
    "Nightly backup" :> <<"N","i","g","h","t","l","y"," ","b","a","c","k","u","p">> @@
    "Audit a site" :> <<"A","u","d","i","t"," ","a"," ","s","i","t","e">> @@
    "No description available" :> <<"N","o"," ","d","e","s","c","r","i","p","t","i","o","n"," ","a","v","a","i","l","a","b","l","e">> @@
    "Create Site And Locations" :> <<"C","r","e","a","t","e"," ","S","i","t","e"," ","A","n","d"," ","L","o","c","a","t","i","o","n","s">> @@
    "Backup Configs" :> <<"B","a","c","k","u","p"," ","C","o","n","f","i","g","s">> @@
    "Provision New Site" :> <<"P","r","o","v","i","s","i","o","n"," ","N","e","w"," ","S","i","t","e">> @@
    "tenant" :> <<"t","e","n","a","n","t">> @@
    "region" :> <<"r","e","g","i","o","n">> @@
    "site" :> <<"s","i","t","e">> @@
    "device" :> <<"d","e","v","i","c","e">> @@
    "site_tenant" :> <<"s","i","t","e","_","t","e","n","a","n","t">> @@
    "Primary_Device" :> <<"P","r","i","m","a","r","y","_","D","e","v","i","c","e">> @@
    "TENANT" :> <<"T","E","N","A","N","T">> @@
    "regional_site" :> <<"r","e","g","i","o","n","a","l","_","s","i","t","e">> @@
    "number_of_floors" :> <<"n","u","m","b","e","r","_","o","f","_","f","l","o","o","r","s">> @@
    "results" :> <<"r","e","s","u","l","t","s">> @@
    "true" :> <<"t","r","u","e">> @@
    "1" :> <<"1">> @@
    "yes" :> <<"y","e","s">> @@
    "False" :> <<"F","a","l","s","e">> @@
    "8001" :> <<"8","0","0","1">> @@
    "abc" :> <<"a","b","c">> @@
    "dcim/sites" :> <<"d","c","i","m","/","s","i","t","e","s">> @@
    "dcim/tenants" :> <<"d","c","i","m","/","t","e","n","a","n","t","s">> @@
    "/dcim/sites/" :> <<"/","d","c","i","m","/","s","i","t","e","s","/">> @@
    "dcim/devices" :> <<"d","c","i","m","/","d","e","v","i","c","e","s">> @@
    "dcim/device-types" :> <<"d","c","i","m","/","d","e","v","i","c","e","-","t","y","p","e","s">> @@
    "ipam/ip-addresses" :> <<"i","p","a","m","/","i","p","-","a","d","d","r","e","s","s","e","s">> @@
    "ipam/prefixes" :> <<"i","p","a","m","/","p","r","e","f","i","x","e","s">> @@
    "ipam/vlans" :> <<"i","p","a","m","/","v","l","a","n","s">> @@
    "extras/scripts" :> <<"e","x","t","r","a","s","/","s","c","r","i","p","t","s">> @@
    "core/jobs" :> <<"c","o","r","e","/","j","o","b","s">> @@
    "extras/scripts/{}" :> <<"e","x","t","r","a","s","/","s","c","r","i","p","t","s","/","{","}">> @@
    "https://nb/" :> <<"h","t","t","p","s",":","/","/","n","b","/">>

UpperToLower ==
    [A |-> "a", B |-> "b", C |-> "c", D |-> "d", E |-> "e", F |-> "f", G |-> "g",
     H |-> "h", I |-> "i", J |-> "j", K |-> "k", L |-> "l", M |-> "m", N |-> "n",
     O |-> "o", P |-> "p", Q |-> "q", R |-> "r", S |-> "s", T |-> "t", U |-> "u",
     V |-> "v", W |-> "w", X |-> "x", Y |-> "y", Z |-> "z"]

Whitespace == {" ", "\t", "\n"}

\* str.lower(), on characters
LowerChars(cs) ==
    [i \in 1..Len(cs) |-> IF cs[i] \in DOMAIN UpperToLower THEN UpperToLower[cs[i]] ELSE cs[i]]

\* s.lower() of a str value
lower(s) == LowerChars(Spell[s])

\* `needle in hay` for two strings (as characters): needle occurs contiguously
Contains(hay, needle) ==
    \E i \in 0..(Len(hay) - Len(needle)) : SubSeq(hay, i + 1, i + Len(needle)) = needle

\* str.split(): the maximal runs of non-whitespace characters, left to right
RECURSIVE SplitFrom(_, _, _)
SplitFrom(cs, i, word) ==
    IF i > Len(cs)
    THEN IF word = <<>> THEN <<>> ELSE <<word>>
    ELSE IF cs[i] \in Whitespace
         THEN (IF word = <<>> THEN <<>> ELSE <<word>>) \o SplitFrom(cs, i + 1, <<>>)
         ELSE SplitFrom(cs, i + 1, Append(word, cs[i]))

split(cs) == SplitFrom(cs, 1, <<>>)

(***************************************************************************)
(* The remote service, as one call sees it: the connection fails, or an    *)
(* HTTP response arrives with a status and a body that is JSON or not.     *)
(***************************************************************************)
NotJson == [t |-> "notjson"]
ConnError == [kind |-> "conn_error"]
Http(status, body) == [kind |-> "http", status |-> status, body |-> body]

ConnectionErrorMsg == JStr("Max retries exceeded with url (connection failed)")
HTTPErrorMsg(status) ==
    FStr(IF status < 500 THEN "{} Client Error for url" ELSE "{} Server Error for url",
         <<JInt(status)>>)
JSONDecodeErrorMsg == JStr("Expecting value: line 1 column 1 (char 0)")
NotIterableMsg(x) == FStr("argument of type '{}' is not iterable", <<JStr(TypeName(x))>>)
\* data['results'] on a str or a list (the two types, besides dict, that can
\* hold 'results'): the text of the TypeError
BadIndexMsg(x) ==
    IF IsStr(x)
    THEN JStr("string indices must be integers, not 'str'")
    ELSE FStr("{} indices must be integers or slices, not str", <<JStr(TypeName(x))>>)
NoAttributeMsg(x, attr) == FStr("'{}' object has no attribute '{}'", <<JStr(TypeName(x)), JStr(attr)>>)

\* requests.Response.raise_for_status(): raises for 4xx and 5xx only
raise_for_status(resp) == resp.status >= 400 /\ resp.status < 600

\* session.<method>(...) followed by response.raise_for_status()
send(resp) ==
    IF resp.kind = "conn_error" THEN Raise(ConnectionErrorMsg)
    ELSE IF raise_for_status(resp) THEN Raise(HTTPErrorMsg(resp.status))
    ELSE Return(resp)

\* response.json()
response_json(resp) ==
    IF resp.body = NotJson THEN Raise(JSONDecodeErrorMsg) ELSE Return(resp.body)

\* send, then return response.json()
send_json(resp) ==
    IF Raised(send(resp)) THEN send(resp) ELSE response_json(resp)

(***************************************************************************)
(* NetBoxRestClient                                                        *)
(***************************************************************************)
DigitChars == <<"0", "1", "2", "3", "4", "5", "6", "7", "8", "9">>

\* str(n) of a natural number, as characters
RECURSIVE DecimalText(_)
DecimalText(n) ==
    IF n < 10 THEN <<DigitChars[n + 1]>>
    ELSE DecimalText(n \div 10) \o <<DigitChars[(n % 10) + 1]>>

\* The characters an f-string writes for a value
Text(x) == IF x.t = "int" THEN DecimalText(x.n) ELSE Spell[x.s]

\* The characters of an f-string: its template with each {} replaced by the
\* text of the next value
RECURSIVE FormatFrom(_, _, _)
FormatFrom(cs, i, fmt_args) ==
    IF i > Len(cs) THEN <<>>
    ELSE IF i < Len(cs) /\ cs[i] = "{" /\ cs[i + 1] = "}"
         THEN Text(Head(fmt_args)) \o FormatFrom(cs, i + 2, Tail(fmt_args))
         ELSE <<cs[i]>> \o FormatFrom(cs, i + 1, fmt_args)

\* The characters of a str value, plain or formatted
Chars(x) == IF x.t = "fstr" THEN FormatFrom(Spell[x.tmpl], 1, x.args) ELSE Spell[x.s]

\* s.strip('/'), on characters
RECURSIVE strip_slash(_)
strip_slash(cs) ==
    IF cs # <<>> /\ Head(cs) = "/" THEN strip_slash(Tail(cs))
    ELSE IF cs # <<>> /\ cs[Len(cs)] = "/" THEN strip_slash(SubSeq(cs, 1, Len(cs) - 1))
    ELSE cs

\* The URL as the characters that follow the base URL and its slash:
\* api/<endpoint>/ or api/<endpoint>/<id>/, the endpoint without the slashes
\* around it.
build_url(endpoint, id) ==
    LET stripped == strip_slash(Chars(endpoint))
    IN  IF id # JNull
        THEN <<"a", "p", "i", "/">> \o stripped \o <<"/">> \o Text(id) \o <<"/">>
        ELSE <<"a", "p", "i", "/">> \o stripped \o <<"/">>

Request(method, url, params, body) ==
    [method |-> method, url |-> url, params |-> params, json |-> body]

\* `'results' in data` of NetBoxRestClient.get, for each type data can have
HasResults(data) ==
    CASE data.t = "dict" -> Return("results" \in DOMAIN data.map)
      [] data.t = "list" -> Return(\E i \in 1..Len(data.items) : data.items[i] = JStr("results"))
      [] data.t = "str"  -> Return(Contains(Spell[data.s], Spell["results"]))
      [] OTHER -> Raise(NotIterableMsg(data))

\* lines 162-165 without the `id is None` test
UnwrapResultsAlways(data, id) ==
    IF Raised(HasResults(data)) THEN HasResults(data)
    ELSE IF HasResults(data).val
         THEN (IF IsDict(data) THEN Return(data.map["results"]) ELSE Raise(BadIndexMsg(data)))
         ELSE Return(data)

\* lines 162-165 of NetBoxRestClient.get: unwrap a results page when no id was asked
unwrap_results(data, id) ==
    IF id = JNull
    THEN IF Raised(HasResults(data)) THEN HasResults(data)
         ELSE IF HasResults(data).val
              THEN (IF IsDict(data) THEN Return(data.map["results"]) ELSE Raise(BadIndexMsg(data)))
              ELSE Return(data)
    ELSE Return(data)

client_get(endpoint, id, params, resp) ==
    [request |-> Request("GET", build_url(endpoint, id), params, JNull),
     outcome |-> IF Raised(send_json(resp)) THEN send_json(resp)
                 ELSE unwrap_results(send_json(resp).val, id)]

client_create(endpoint, data, resp) ==
    [request |-> Request("POST", build_url(endpoint, JNull), JNull, data),
     outcome |-> send_json(resp)]

client_update(endpoint, id, data, resp) ==
    [request |-> Request("PATCH", build_url(endpoint, id), JNull, data),
     outcome |-> send_json(resp)]

\* lines 185-186 returning True for every status that does not raise
DeletedAnySuccess(resp) ==
    IF Raised(send(resp)) THEN send(resp) ELSE Return(JTrue)

\* lines 185-186 and 207-208: raise_for_status(), then status_code == 204
deleted(resp) ==
    IF Raised(send(resp)) THEN send(resp) ELSE Return(JBool(resp.status = 204))

client_delete(endpoint, id, resp) ==
    [request |-> Request("DELETE", build_url(endpoint, id), JNull, JNull),
     outcome |-> deleted(resp)]

bulk_url(endpoint) == build_url(endpoint, JNull) \o <<"b", "u", "l", "k", "/">>

bulk_create(endpoint, data, resp) ==
    [request |-> Request("POST", bulk_url(endpoint), JNull, data),
     outcome |-> send_json(resp)]

bulk_update(endpoint, data, resp) ==
    [request |-> Request("PATCH", bulk_url(endpoint), JNull, data),
     outcome |-> send_json(resp)]

\* data = [{"id": id} for id in ids]
IdRecords(ids) == JList([i \in 1..Len(ids) |-> JDict([id |-> ids[i]])])

bulk_delete(endpoint, ids, resp) ==
    [request |-> Request("DELETE", bulk_url(endpoint), JNull, IdRecords(ids)),
     outcome |-> deleted(resp)]

(***************************************************************************)
(* Bounds of the model and the inputs drawn within them.                   *)
(***************************************************************************)
MaxId == 2        \* object ids are 1..MaxId
MaxItems == 2     \* longest listing the remote returns
MaxScripts == 3   \* longest script catalog
MaxVars == 2      \* most parameters a script declares

DefaultLimit == 50
SearchLimit == 25
ResolverLimit == 10

SeqsUpTo(S, n) == UNION {[1..k -> S] : k \in 0..n}

Statuses == {200, 201, 204, 400, 404, 500}

Ids == {JInt(i) : i \in 1..MaxId}

Site(i) ==
    JDict([id |-> JInt(i), name |-> JStr(IF i % 2 = 1 THEN "A" ELSE "B"),
           display |-> JStr(IF i % 2 = 1 THEN "Site A" ELSE "Site B"),
           url |-> FStr("/api/dcim/sites/{}/", <<JInt(i)>>)])

Objects ==
    {Site(i) : i \in 1..MaxId}
    \cup {JDict([id |-> JInt(1), display |-> JStr("Site A")]),
          JDict([id |-> JInt(2), name |-> JStr(""), display |-> JStr("Site B"), url |-> JNull])}

\* What a listing may hold: objects, and one element that is no object.
ListItems == Objects \cup {JInt(7)}

Page(q) == JDict([count |-> JInt(Len(q)), results |-> JList(q)])

ListBodies == {JList(q) : q \in SeqsUpTo(ListItems, MaxItems)}
              \cup {Page(q) : q \in SeqsUpTo(ListItems, MaxItems)}

ObjectBodies == Objects \cup {JDict([id |-> JInt(1), results |-> JList(<<Site(1)>>)])}

\* Payloads that are neither an array nor a results page.
OddBodies ==
    {JNull, JInt(0), JStr("results"), JStr("site"), JList(<<JStr("results")>>),
     JDict([detail |-> JStr("Not found.")]), JDict([results |-> JNull])}

Bodies == ListBodies \cup ObjectBodies \cup OddBodies

Failures == {ConnError} \cup {Http(s, NotJson) : s \in Statuses}
            \cup {Http(404, JDict([detail |-> JStr("Not found.")]))}

Responses == Failures \cup {Http(200, b) : b \in Bodies}
             \cup {Http(201, b) : b \in ObjectBodies}

DeleteResponses == Failures \cup {Http(s, b) : s \in {200, 204}, b \in {JNull, Site(1)}}

\* Two collections, one of them also spelled with slashes around it.
Endpoints == {JStr("dcim/sites"), JStr("dcim/tenants"), JStr("/dcim/sites/")}
Limits == {JInt(DefaultLimit), JInt(2)}
OptionalIds == {JNull, JInt(0)} \cup Ids
RawParams ==
    {JNull, EmptyDict, JDict([limit |-> JInt(5)]),
     JDict([site_id |-> JInt(9), vrf_id |-> JInt(9)]), JDict([status |-> JStr("active")])}

(***************************************************************************)
(* Tool handlers.  Each returns the requests it issued, what it returned   *)
(* and the local variables its result was built from.                      *)
(***************************************************************************)
\* A call that sends its request a second time when the first attempt failed.
HandledWithRetry(reqs, res, loc) ==
    [requests |-> IF res.kind = "return" /\ IsDict(res.val) /\ "error" \in DOMAIN res.val.map
                  THEN reqs \o reqs ELSE reqs,
     result |-> res, locals |-> loc]

Handled(reqs, res, loc) == [requests |-> reqs, result |-> res, locals |-> loc]

ErrorEnvelope(msg) == JDict([success |-> JFalse, error |-> msg])

\* A handler without its try/except: the exception leaves the handler.
NoTryExcept(outcome) == outcome

\* try: <body> except Exception as e: return {"success": False, "error": str(e)}
try_except(outcome) ==
    IF Raised(outcome) THEN Return(ErrorEnvelope(outcome.msg)) ELSE outcome

\* The success envelope built without its payload.
SuccessWithoutData(outcome) ==
    IF Raised(outcome) THEN outcome ELSE Return(JDict([success |-> JTrue]))

\* return {"success": True, "data": <client call>}
success_data(outcome) ==
    IF Raised(outcome) THEN outcome
    ELSE Return(JDict([success |-> JTrue, data |-> outcome.val]))

\* query_params = {"limit": limit}; if x: query_params[key] = x
with_filter(query_params, key, x) ==
    IF Truthy(x) THEN Updated(query_params, key :> x) ELSE query_params

\* if params: query_params.update(params)
with_params(query_params, params) ==
    IF Truthy(params) THEN Updated(query_params, params.map) ELSE query_params

\* The list reads: one GET of the collection with the query built above.
list_read(endpoint, query_params, resp) ==
    LET c == client_get(JStr(endpoint), JNull, JDict(query_params), resp)
    IN  Handled(<<c.request>>, try_except(success_data(c.outcome)),
                [query_params |-> JDict(query_params)])

get_sites(limit, params, resp) ==
    list_read("dcim/sites", with_params([limit |-> limit], params), resp)

get_site_by_id(site_id, resp) ==
    LET c == client_get(JStr("dcim/sites"), site_id, JNull, resp)
    IN  Handled(<<c.request>>, try_except(success_data(c.outcome)), <<>>)

create_site(name, slug, status, description, resp) ==
    LET site_data == JDict([name |-> name, slug |-> slug, status |-> status,
                            description |-> description])
        c == client_create(JStr("dcim/sites"), site_data, resp)
    IN  Handled(<<c.request>>, try_except(success_data(c.outcome)), <<>>)

get_devices(limit, site_id, params, resp) ==
    list_read("dcim/devices",
              with_params(with_filter([limit |-> limit], "site_id", site_id), params), resp)

get_device_by_id(device_id, resp) ==
    LET c == client_get(JStr("dcim/devices"), device_id, JNull, resp)
    IN  Handled(<<c.request>>, try_except(success_data(c.outcome)), <<>>)

create_device(name, device_type_id, site_id, status, resp) ==
    LET device_data == JDict([name |-> name, device_type |-> device_type_id,
                              site |-> site_id, status |-> status])
        c == client_create(JStr("dcim/devices"), device_data, resp)
    IN  Handled(<<c.request>>, try_except(success_data(c.outcome)), <<>>)

get_device_types(limit, manufacturer_id, resp) ==
    list_read("dcim/device-types",
              with_filter([limit |-> limit], "manufacturer_id", manufacturer_id), resp)

get_ip_addresses(limit, vrf_id, params, resp) ==
    list_read("ipam/ip-addresses",
              with_params(with_filter([limit |-> limit], "vrf_id", vrf_id), params), resp)

create_ip_address(address, status, description, resp) ==
    LET ip_data == JDict([address |-> address, status |-> status,
                          description |-> description])
        c == client_create(JStr("ipam/ip-addresses"), ip_data, resp)
    IN  Handled(<<c.request>>, try_except(success_data(c.outcome)), <<>>)

get_prefixes(limit, vrf_id, params, resp) ==
    list_read("ipam/prefixes",
              with_params(with_filter([limit |-> limit], "vrf_id", vrf_id), params), resp)

get_vlans(limit, site_id, resp) ==
    list_read("ipam/vlans", with_filter([limit |-> limit], "site_id", site_id), resp)

search_objects(endpoint, query, limit, resp) ==
    LET c == client_get(endpoint, JNull, JDict([q |-> query, limit |-> limit]), resp)
    IN  Handled(<<c.request>>, try_except(success_data(c.outcome)), <<>>)

update_object(endpoint, object_id, data, resp) ==
    LET c == client_update(endpoint, object_id, data, resp)
    IN  Handled(<<c.request>>, try_except(success_data(c.outcome)), <<>>)

\* {"success": success, "message": f"Object {object_id} deleted" if success else "Deletion failed"}
delete_envelope(outcome, object_id) ==
    IF Raised(outcome) THEN outcome
    ELSE Return(JDict([success |-> outcome.val,
                       message |-> IF outcome.val.b THEN FStr("Object {} deleted", <<object_id>>)
                                   ELSE JStr("Deletion failed")]))

delete_object(endpoint, object_id, resp) ==
    LET c == client_delete(endpoint, object_id, resp)
    IN  Handled(<<c.request>>, try_except(delete_envelope(c.outcome, object_id)),
                IF Raised(c.outcome) THEN <<>> ELSE [success |-> c.outcome.val])

(***************************************************************************)
(* Custom-script tools                                                     *)
(***************************************************************************)
\* lines 420-429 with the empty string as the default description
EnhancedEmptyDescription(script) ==
    JDict([id |-> DictGet(script, "id", JNull),
           name |-> DictGet(script, "name", JNull),
           description |-> DictGet(script, "description", JStr("")),
           display |-> DictGet(script, "display", JNull),
           module |-> DictGet(script, "module", JNull),
           vars |-> DictGet(script, "vars", EmptyDict),
           is_executable |-> DictGet(script, "is_executable", JFalse),
           last_result |-> DictGet(script, "result", JNull)])

\* lines 420-429: one descriptor per remote script, defaults for missing keys
enhanced(script) ==
    JDict([id |-> DictGet(script, "id", JNull),
           name |-> DictGet(script, "name", JNull),
           description |-> DictGet(script, "description", JStr("No description available")),
           display |-> DictGet(script, "display", JNull),
           module |-> DictGet(script, "module", JNull),
           vars |-> DictGet(script, "vars", EmptyDict),
           is_executable |-> DictGet(script, "is_executable", JFalse),
           last_result |-> DictGet(script, "result", JNull)])

\* The elements a Python `for` loop over x visits, or the TypeError it raises.
Iterate(x) ==
    CASE x.t = "list" -> Return(x.items)
      [] x.t = "dict" -> Return([i \in 1..Cardinality(DOMAIN x.map) |-> JStr("key")])
      [] x.t = "str"  -> Return([i \in 1..Len(Spell[x.s]) |-> JStr("char")])
      [] OTHER -> Raise(FStr("'{}' object is not iterable", <<JStr(TypeName(x))>>))

\* lines 410-415 without the final else: any other shape is walked as it is
AsListKeepingShape(response) ==
    IF IsList(response) THEN response
    ELSE IF IsDict(response) /\ "results" \in DOMAIN response.map THEN response.map["results"]
    ELSE response

\* lines 410-415: the list to walk, from whatever shape client.get returned
as_list(response) ==
    IF IsList(response) THEN response
    ELSE IF IsDict(response) /\ "results" \in DOMAIN response.map THEN response.map["results"]
    ELSE JList(<<>>)

\* lines 418-429: the loop; script.get fails on the first element that is no dict
enhance_all(scripts_list) ==
    IF Raised(Iterate(scripts_list)) THEN Iterate(scripts_list)
    ELSE LET items == Iterate(scripts_list).val
             bad == {i \in 1..Len(items) : ~IsDict(items[i])}
         IN  IF bad # {}
             THEN Raise(NoAttributeMsg(items[CHOOSE i \in bad : \A j \in bad : i <= j], "get"))
             ELSE Return([i \in 1..Len(items) |-> enhanced(items[i])])

get_custom_scripts(resp) ==
    LET c == client_get(JStr("extras/scripts"), JNull, JNull, resp)
        done == IF Raised(c.outcome) THEN c.outcome
                ELSE enhance_all(as_list(c.outcome.val))
    IN  Handled(<<c.request>>,
                try_except(IF Raised(done) THEN done
                           ELSE Return(JDict([success |-> JTrue,
                                              count |-> JInt(Len(done.val)),
                                              data |-> JList(done.val)]))),
                <<>>)

Hint(help, example) == [help |-> help, example |-> example]

\* lines 481-495 with the "site" test moved in front of the "tenant" test
ObjectVarHintSiteFirst(var_name) ==
    LET n == lower(var_name)
    IN  IF Contains(n, Spell["site"])
        THEN Hint(JStr("Use get_sites() or search_objects('dcim/sites', 'query') to find site ID"),
                  JStr("Search for site name and use the 'id' field"))
        ELSE IF Contains(n, Spell["tenant"])
        THEN Hint(JStr("Use search_objects('dcim/tenants', 'query') to find tenant ID"),
                  JStr("Search for tenant name and use the 'id' field"))
        ELSE IF Contains(n, Spell["region"])
        THEN Hint(JStr("Use search_objects('dcim/regions', 'query') to find region ID"),
                  JStr("Search for region name and use the 'id' field"))
        ELSE IF Contains(n, Spell["device"])
        THEN Hint(JStr("Use get_devices() or search_objects('dcim/devices', 'query') to find device ID"),
                  JStr("Search for device name and use the 'id' field"))
        ELSE Hint(FStr("Use search_objects() to find the {} object ID", <<JStr(var_name)>>),
                  JStr("Search by name and use the 'id' field from results"))

\* lines 481-495: the lookup hint for an ObjectVar, by the parameter's name
object_var_hint(var_name) ==
    LET n == lower(var_name)
    IN  IF Contains(n, Spell["tenant"])
        THEN Hint(JStr("Use search_objects('dcim/tenants', 'query') to find tenant ID"),
                  JStr("Search for tenant name and use the 'id' field"))
        ELSE IF Contains(n, Spell["region"])
        THEN Hint(JStr("Use search_objects('dcim/regions', 'query') to find region ID"),
                  JStr("Search for region name and use the 'id' field"))
        ELSE IF Contains(n, Spell["site"])
        THEN Hint(JStr("Use get_sites() or search_objects('dcim/sites', 'query') to find site ID"),
                  JStr("Search for site name and use the 'id' field"))
        ELSE IF Contains(n, Spell["device"])
        THEN Hint(JStr("Use get_devices() or search_objects('dcim/devices', 'query') to find device ID"),
                  JStr("Search for device name and use the 'id' field"))
        ELSE Hint(FStr("Use search_objects() to find the {} object ID", <<JStr(var_name)>>),
                  JStr("Search by name and use the 'id' field from results"))

\* lines 473-507: the guidance record of one parameter
guidance(var_name, var_type) ==
    LET h == IF var_type = JStr("ObjectVar") THEN object_var_hint(var_name)
             ELSE IF var_type = JStr("StringVar")
             THEN Hint(JStr("Provide as a string value"), FStr("\"example_{}\"", <<JStr(var_name)>>))
             ELSE IF var_type = JStr("IntegerVar")
             THEN Hint(JStr("Provide as an integer value"), JStr("10"))
             ELSE IF var_type = JStr("BooleanVar")
             THEN Hint(JStr("Provide as true or false"), JStr("true"))
             ELSE Hint(FStr("Provide value for {}", <<var_type>>), JStr("See NetBox documentation"))
    IN  JDict([type |-> var_type, required |-> JTrue, help |-> h.help, example |-> h.example])

\* lines 468-509: vars_dict.items() needs a dict
var_guidance(vars_dict) ==
    IF ~IsDict(vars_dict) THEN Raise(NoAttributeMsg(vars_dict, "items"))
    ELSE Return(JDict([n \in DOMAIN vars_dict.map |-> guidance(n, vars_dict.map[n])]))

\* line 465 as a truthiness test: `if not script`
ScriptNotFoundWhenFalsy(script) == ~Truthy(script)

\* line 465: if not isinstance(script, dict)
script_not_found(script) == ~IsDict(script)

\* lines 461-519; script.get needs a dict
get_script_variables(script_id, resp) ==
    LET c == client_get(JStr("extras/scripts"), script_id, JNull, resp)
        script == c.outcome.val
        g == var_guidance(DictGet(script, "vars", EmptyDict))
    IN  Handled(<<c.request>>,
                try_except(
                    IF Raised(c.outcome) THEN c.outcome
                    ELSE IF script_not_found(script)
                    THEN Return(JDict([success |-> JFalse, error |-> JStr("Script not found")]))
                    ELSE IF ~IsDict(script) THEN Raise(NoAttributeMsg(script, "get"))
                    ELSE IF Raised(g) THEN g
                    ELSE Return(JDict([success |-> JTrue,
                                       script_id |-> script_id,
                                       script_name |-> DictGet(script, "name", JNull),
                                       description |-> DictGet(script, "description", JNull),
                                       variables |-> g.val]))),
                <<>>)

\* lines 566-571 with `name` read from the name field alone
SimplifiedWithoutFallback(match) ==
    JDict([id |-> DictGet(match, "id", JNull),
           name |-> DictGet(match, "name", JNull),
           display |-> DictGet(match, "display", JNull),
           url |-> DictGet(match, "url", JNull)])

\* lines 564-572: the simplified form of one match
simplified(match) ==
    JDict([id |-> DictGet(match, "id", JNull),
           name |-> IF Truthy(DictGet(match, "name", JNull)) THEN DictGet(match, "name", JNull)
                    ELSE DictGet(match, "display", JNull),
           display |-> DictGet(match, "display", JNull),
           url |-> DictGet(match, "url", JNull)])

simplify_all(matches) ==
    IF Raised(Iterate(matches)) THEN Iterate(matches)
    ELSE LET items == Iterate(matches).val
             bad == {i \in 1..Len(items) : ~IsDict(items[i])}
         IN  IF bad # {}
             THEN Raise(NoAttributeMsg(items[CHOOSE i \in bad : \A j \in bad : i <= j], "get"))
             ELSE Return([i \in 1..Len(items) |-> simplified(items[i])])

search_for_object_id(endpoint, search_name, name_field, resp) ==
    LET c == client_get(endpoint, JNull,
                        JDict([q |-> search_name, limit |-> JInt(ResolverLimit)]), resp)
        done == IF Raised(c.outcome) THEN c.outcome
                ELSE simplify_all(as_list(c.outcome.val))
    IN  Handled(<<c.request>>,
                try_except(IF Raised(done) THEN done
                           ELSE Return(JDict([success |-> JTrue,
                                              endpoint |-> endpoint,
                                              search_name |-> search_name,
                                              count |-> JInt(Len(done.val)),
                                              matches |-> JList(done.val)]))),
                <<>>)

\* (script.get(key) or "").lower(): a null value read as the empty string
LoweredOrEmpty(script, key) ==
    LET x == DictGet(script, key, JStr(""))
    IN  IF x.t = "str" THEN Return(lower(x.s)) ELSE Return(<<>>)

\* script.get(key, "").lower(): the descriptor always has the key, so the
\* default is never used and a null (or any non-str) value has no lower()
lowered(script, key) ==
    LET x == DictGet(script, key, JStr(""))
    IN  IF x.t = "str" THEN Return(lower(x.s)) ELSE Raise(NoAttributeMsg(x, "lower"))

\* lines 633-639: the points the query's words add
RECURSIVE word_points(_, _, _, _)
word_points(query_words, i, name, description) ==
    IF i > Len(query_words) THEN 0
    ELSE (IF Len(query_words[i]) > 2
          THEN (IF Contains(name, query_words[i]) THEN 2 ELSE 0)
               + (IF Contains(description, query_words[i]) THEN 1 ELSE 0)
          ELSE 0)
         + word_points(query_words, i + 1, name, description)

\* lines 624-639 with the display label left out of the score
RelevanceWithoutDisplay(query_lower, name, description, display) ==
    (IF Contains(name, query_lower) THEN 10 ELSE 0)
    + (IF Contains(description, query_lower) THEN 5 ELSE 0)
    + word_points(split(query_lower), 1, name, description)

\* lines 624-639: the relevance of one script
relevance(query_lower, name, description, display) ==
    (IF Contains(name, query_lower) THEN 10 ELSE 0)
    + (IF Contains(description, query_lower) THEN 5 ELSE 0)
    + (IF Contains(display, query_lower) THEN 3 ELSE 0)
    + word_points(split(query_lower), 1, name, description)

\* lines 619-639 for one descriptor: its relevance, or the AttributeError
script_relevance(script, query_lower) ==
    LET name == lowered(script, "name")
        description == lowered(script, "description")
        display == lowered(script, "display")
    IN  IF Raised(name) THEN name
        ELSE IF Raised(description) THEN description
        ELSE IF Raised(display) THEN display
        ELSE Return(relevance(query_lower, name.val, description.val, display.val))

\* {**script, "relevance": relevance}
with_relevance(script, r) == JDict(Updated(script.map, "relevance" :> JInt(r)))

\* lines 617-645: the loop over the catalog, stopping at the first exception
scored_matches(all_scripts, query_lower) ==
    LET r == [i \in 1..Len(all_scripts) |-> script_relevance(all_scripts[i], query_lower)]
        bad == {i \in 1..Len(all_scripts) : Raised(r[i])}
    IN  IF bad # {} THEN r[CHOOSE i \in bad : \A j \in bad : i <= j]
        ELSE Return(SelectSeq([i \in 1..Len(all_scripts) |->
                                   with_relevance(all_scripts[i], r[i].val)],
                              LAMBDA m : m.map["relevance"].n > 0))

\* One step of the sort: m goes behind every element that does not rank below it.
insert_by_relevance(sorted, m) ==
    LET k == Cardinality({i \in 1..Len(sorted) :
                            sorted[i].map["relevance"].n >= m.map["relevance"].n})
    IN  SubSeq(sorted, 1, k) \o <<m>> \o SubSeq(sorted, k + 1, Len(sorted))

\* A sort that puts m in front of the elements of equal relevance.
RECURSIVE SortTiesReversed(_)
SortTiesReversed(matches) ==
    IF matches = <<>> THEN <<>>
    ELSE LET sorted == SortTiesReversed(SubSeq(matches, 1, Len(matches) - 1))
             m == matches[Len(matches)]
             k == Cardinality({i \in 1..Len(sorted) :
                                 sorted[i].map["relevance"].n > m.map["relevance"].n})
         IN  SubSeq(sorted, 1, k) \o <<m>> \o SubSeq(sorted, k + 1, Len(sorted))

\* line 648: matches.sort(key=lambda x: x["relevance"], reverse=True), a stable sort
RECURSIVE sort_by_relevance(_)
sort_by_relevance(matches) ==
    IF matches = <<>> THEN <<>>
    ELSE insert_by_relevance(sort_by_relevance(SubSeq(matches, 1, Len(matches) - 1)),
                             matches[Len(matches)])

\* lines 651-652: match.pop("relevance", None)
pop_relevance(match) == JDict([k \in DOMAIN match.map \ {"relevance"} |-> match.map[k]])

find_custom_script(query, resp) ==
    LET nested == get_custom_scripts(resp)
        all_scripts_result == nested.result.val
        all_scripts == DictGet(all_scripts_result, "data", JList(<<>>)).items
        scored == scored_matches(all_scripts, lower(query.s))
        sorted == sort_by_relevance(scored.val)
        matches == [i \in 1..Len(sorted) |-> pop_relevance(sorted[i])]
        failed == Raised(nested.result)
                  \/ ~Truthy(DictGet(all_scripts_result, "success", JNull))
                  \/ Raised(scored)
    IN  Handled(nested.requests,
                try_except(
                    IF Raised(nested.result) THEN nested.result
                    ELSE IF ~Truthy(DictGet(all_scripts_result, "success", JNull))
                    THEN Return(all_scripts_result)
                    ELSE IF Raised(scored) THEN scored
                    ELSE Return(JDict([success |-> JTrue,
                                       query |-> query,
                                       count |-> JInt(Len(matches)),
                                       matches |-> JList(matches)]))),
                IF failed THEN <<>>
                ELSE [all_scripts |-> JList(all_scripts), sorted |-> JList(sorted)])

(***************************************************************************)
(* Script execution and jobs                                               *)
(***************************************************************************)
\* lines 734-743 with the top-level id also consulted when `job` is no object
JobOfTopLevelFallback(res) ==
    IF IsDict(res)
    THEN IF "job" \in DOMAIN res.map /\ IsDict(res.map["job"])
         THEN [job_info |-> res.map["job"], job_id |-> DictGet(res.map["job"], "id", JNull)]
         ELSE IF "id" \in DOMAIN res.map
         THEN [job_info |-> DictGet(res, "job", JNull), job_id |-> res.map["id"]]
         ELSE [job_info |-> DictGet(res, "job", JNull), job_id |-> JNull]
    ELSE [job_info |-> JNull, job_id |-> JNull]

\* lines 734-743: job_info and job_id from the submission response
job_of(res) ==
    IF IsDict(res)
    THEN IF "job" \in DOMAIN res.map
         THEN [job_info |-> res.map["job"],
               job_id |-> IF IsDict(res.map["job"]) THEN DictGet(res.map["job"], "id", JNull)
                          ELSE JNull]
         ELSE IF "id" \in DOMAIN res.map
         THEN [job_info |-> JNull, job_id |-> res.map["id"]]
         ELSE [job_info |-> JNull, job_id |-> JNull]
    ELSE [job_info |-> JNull, job_id |-> JNull]

execute_custom_script(script_id, data, commit, resp) ==
    LET payload == JDict([data |-> IF Truthy(data) THEN data ELSE EmptyDict,
                          commit |-> commit])
        c == client_create(FStr("extras/scripts/{}", <<script_id>>), payload, resp)
        res == c.outcome.val
    IN  Handled(<<c.request>>,
                IF Raised(c.outcome)
                THEN Return(JDict([success |-> JFalse,
                                   error |-> c.outcome.msg,
                                   message |-> FStr("Failed to execute script {}. Check that script ID is valid and all required parameters are provided.", <<script_id>>)]))
                ELSE Return(JDict([success |-> JTrue,
                                   message |-> JStr("Script execution started successfully"),
                                   script_id |-> script_id,
                                   job_id |-> job_of(res).job_id,
                                   job_info |-> job_of(res).job_info,
                                   data |-> res])),
                IF Raised(c.outcome) THEN <<>> ELSE job_of(res))

\* line 784: job.get("status", {}).get("value") if isinstance(job, dict) else None
status_value(job) ==
    IF IsDict(job)
    THEN LET s == DictGet(job, "status", EmptyDict)
         IN  IF IsDict(s) THEN Return(DictGet(s, "value", JNull))
             ELSE Raise(NoAttributeMsg(s, "get"))
    ELSE Return(JNull)

get_script_job_status(job_id, resp) ==
    LET c == client_get(JStr("core/jobs"), job_id, JNull, resp)
        job == c.outcome.val
    IN  Handled(<<c.request>>,
                try_except(
                    IF Raised(c.outcome) THEN c.outcome
                    ELSE IF Raised(status_value(job)) THEN status_value(job)
                    ELSE Return(JDict([success |-> JTrue,
                                       data |-> job,
                                       status |-> status_value(job).val,
                                       completed |-> IF IsDict(job)
                                                     THEN DictGet(job, "completed", JNull)
                                                     ELSE JNull]))),
                <<>>)

list_script_jobs(limit, script_name, resp) ==
    list_read("core/jobs",
              with_filter([limit |-> limit, object_type |-> JStr("extras.script")],
                          "name", script_name),
              resp)

(***************************************************************************)
(* Inputs of the script tools                                              *)
(***************************************************************************)
CreateSiteAndLocations ==
    JDict([id |-> JInt(17), name |-> JStr("CreateSiteAndLocations"),
           description |-> JStr("Script to create a new site and associated floors"),
           display |-> JStr("Create Site And Locations"), module |-> JStr("site_tools"),
           vars |-> JDict([tenant |-> JStr("ObjectVar"), number_of_floors |-> JStr("IntegerVar")]),
           is_executable |-> JTrue, result |-> JNull])

BackupConfigs ==
    JDict([id |-> JInt(18), name |-> JStr("BackupConfigs"),
           description |-> JStr("Nightly backup"), display |-> JStr("Backup Configs"),
           vars |-> EmptyDict, is_executable |-> JFalse])

\* A script the remote describes by id, name and display only.
ProvisionNewSite ==
    JDict([id |-> JInt(19), name |-> JStr("ProvisionNewSite"),
           display |-> JStr("Provision New Site")])

SiteAudit ==
    JDict([id |-> JInt(20), name |-> JStr("SiteAudit"), description |-> JStr("Audit a site"),
           display |-> JStr("SiteAudit"), is_executable |-> JTrue])

\* A script without name and display.
Unnamed == JDict([id |-> JInt(21), description |-> JStr("Nightly backup")])

\* A script whose description the remote gives as null.
Undescribed ==
    JDict([id |-> JInt(22), name |-> JStr("SiteAudit"), description |-> JNull,
           display |-> JStr("SiteAudit")])

\* A script without display.
Undisplayed ==
    JDict([id |-> JInt(23), name |-> JStr("BackupConfigs"), description |-> JStr("Nightly backup")])

RawScripts == {CreateSiteAndLocations, BackupConfigs, ProvisionNewSite, SiteAudit,
               Unnamed, Undescribed, Undisplayed, JInt(7)}

Catalogs == SeqsUpTo(RawScripts, MaxScripts)

CatalogResponses ==
    Failures
    \cup {Http(200, JList(q)) : q \in Catalogs}
    \cup {Http(200, Page(q)) : q \in Catalogs}
    \cup {Http(200, b) : b \in OddBodies}
    \cup {Http(200, JDict([results |-> Page(<<SiteAudit>>)])),
          Http(200, JDict([results |-> JDict([results |-> JNull])]))}

Queries == {JStr("create site"), JStr("SITE"), JStr(""), JStr("vlan"), JStr("to"),
            JStr("new  backup"), JStr("available"), JStr("\tSite audit\n")}

VarNames == {"tenant", "region", "site", "device", "site_tenant", "Primary_Device",
             "regional_site", "number_of_floors"}
VarTypes == {JStr("ObjectVar"), JStr("StringVar"), JStr("IntegerVar"), JStr("BooleanVar"),
             JStr("ChoiceVar")}

VarDicts == UNION {[N -> VarTypes] : N \in {S \in SUBSET VarNames : Cardinality(S) <= MaxVars}}

ScriptWith(v) ==
    JDict([id |-> JInt(17), name |-> JStr("CreateSiteAndLocations"),
           description |-> JStr("Script to create a new site and associated floors"),
           vars |-> v])

ScriptResponses ==
    Failures
    \cup {Http(200, ScriptWith(JDict(f))) : f \in VarDicts}
    \cup {Http(200, ScriptWith(JNull)), Http(200, ScriptWith(JList(<<JStr("tenant")>>))),
          Http(200, ProvisionNewSite), Http(200, JList(<<>>)),
          Http(200, JList(<<CreateSiteAndLocations>>)), Http(200, JNull)}

SubmissionBodies ==
    {JDict([job |-> JDict([id |-> JInt(42)])]),
     JDict([id |-> JInt(99)]),
     EmptyDict,
     JDict([result |-> JStr("queued")]),
     JDict([job |-> JNull, id |-> JInt(99)]),
     JDict([job |-> JInt(42), id |-> JInt(99)]),
     JDict([job |-> JDict([id |-> JInt(42)]), id |-> JInt(99)]),
     JDict([job |-> JDict([status |-> JStr("pending")]), id |-> JInt(99)]),
     JDict([job |-> JNull]),
     JList(<<JDict([id |-> JInt(99)])>>),
     JNull}

SubmissionResponses ==
    Failures \cup {Http(s, b) : s \in {200, 201}, b \in SubmissionBodies}

ScriptData == {JNull, EmptyDict, JDict([tenant |-> JInt(1), site_name |-> JStr("DC-East-01")])}

JobBodies ==
    {JDict([id |-> JInt(42), status |-> JDict([value |-> JStr("completed"), label |-> JStr("Completed")]),
            completed |-> JStr("2024-01-01T00:00:00Z")]),
     JDict([id |-> JInt(42), status |-> JDict([value |-> JStr("pending")]), completed |-> JNull]),
     JDict([id |-> JInt(42), status |-> EmptyDict]),
     JDict([id |-> JInt(42)]),
     JDict([id |-> JInt(42), status |-> JStr("completed"), completed |-> JStr("2024-01-01T00:00:00Z")]),
     JDict([id |-> JInt(42), status |-> JNull]),
     JList(<<>>),
     JNull}

JobResponses == Failures \cup {Http(200, b) : b \in JobBodies}

(***************************************************************************)
(* Process startup (module level code, in source order): the .env file is  *)
(* laid over the environment, the configuration is read from it, the       *)
(* required values are validated, the client is built, the tool host is    *)
(* created with its tools and, when run as a script, started.              *)
(***************************************************************************)
\* os.getenv(key, default) on the environment (a dict of str)
getenv(environ, key, default) == DictGet(environ, key, default)

Digits == [c \in {"0", "1", "2", "3", "4", "5", "6", "7", "8", "9"} |->
             CASE c = "0" -> 0 [] c = "1" -> 1 [] c = "2" -> 2 [] c = "3" -> 3 [] c = "4" -> 4
               [] c = "5" -> 5 [] c = "6" -> 6 [] c = "7" -> 7 [] c = "8" -> 8 [] c = "9" -> 9]

RECURSIVE DecimalValue(_)
DecimalValue(cs) ==
    IF cs = <<>> THEN 0
    ELSE 10 * DecimalValue(SubSeq(cs, 1, Len(cs) - 1)) + Digits[cs[Len(cs)]]

\* int(s) of a str of decimal digits; any other text raises ValueError
to_int(x) ==
    LET cs == Spell[x.s]
    IN  IF cs # <<>> /\ \A i \in 1..Len(cs) : cs[i] \in DOMAIN Digits
        THEN Return(JInt(DecimalValue(cs)))
        ELSE Raise(FStr("ValueError: invalid literal for int() with base 10: '{}'", <<x>>))

\* s.rstrip('/'), on characters
RECURSIVE rstrip_slash(_)
rstrip_slash(cs) ==
    IF cs # <<>> /\ cs[Len(cs)] = "/" THEN rstrip_slash(SubSeq(cs, 1, Len(cs) - 1)) ELSE cs

\* The process before its first statement: the environment it was given, the
\* .env file of its directory (null when there is none) and how it was run.
Boot(environ, dotenv, as_main) ==
    [pc |-> "start", environ |-> environ, dotenv |-> dotenv, as_main |-> as_main,
     netbox_url |-> JNull, netbox_token |-> JNull, netbox_verify_ssl |-> JNull,
     mcp_port |-> JNull, mcp_host |-> JNull,
     output |-> <<>>, exit_code |-> JNull, client |-> JNull, tools |-> 0, running |-> FALSE]

\* exit(1), or an exception nothing catches: the process ends with status 1
exited(h, message) ==
    [h EXCEPT !.pc = "exited", !.output = Append(h.output, message), !.exit_code = JInt(1)]

\* load_dotenv_file(): every KEY=value of the file is written to os.environ
load_dotenv_file(h) ==
    [h EXCEPT !.pc = "loaded",
              !.environ = IF h.dotenv = JNull THEN h.environ
                          ELSE JDict(Updated(h.environ.map, h.dotenv.map))]

\* netbox_verify_ssl = os.getenv("NETBOX_VERIFY_SSL", "true").lower() in ("true", "1", "yes")
verify_ssl_of(environ) ==
    JBool(lower(getenv(environ, "NETBOX_VERIFY_SSL", JStr("true")).s)
              \in {Spell["true"], Spell["1"], Spell["yes"]})

\* lines 64-68: the configuration read from the environment; int() may raise
read_config(h) ==
    LET port == to_int(getenv(h.environ, "MCP_PORT", JStr("8001")))
    IN  IF Raised(port) THEN exited(h, port.msg)
        ELSE [h EXCEPT !.pc = "configured",
                       !.netbox_url = getenv(h.environ, "NETBOX_URL", JNull),
                       !.netbox_token = getenv(h.environ, "NETBOX_TOKEN", JNull),
                       !.netbox_verify_ssl = verify_ssl_of(h.environ),
                       !.mcp_port = port.val,
                       !.mcp_host = getenv(h.environ, "MCP_HOST", JStr("localhost"))]

\* lines 71-81: the two required values, tested in turn
validate_config(h) ==
    IF ~Truthy(h.netbox_url) THEN exited(h, JStr("NETBOX_URL not configured!"))
    ELSE IF ~Truthy(h.netbox_token) THEN exited(h, JStr("NETBOX_TOKEN not configured!"))
    ELSE [h EXCEPT !.pc = "validated"]

\* NetBoxRestClient.__init__
new_client(url, token, verify_ssl) ==
    [base_url |-> rstrip_slash(Spell[url.s]),
     api_url |-> rstrip_slash(Spell[url.s]) \o <<"/", "a", "p", "i">>,
     token |-> token, verify_ssl |-> verify_ssl,
     authorization |-> FStr("Token {}", <<token>>)]

\* lines 212-216
create_client(h) ==
    [h EXCEPT !.pc = "client",
              !.client = new_client(h.netbox_url, h.netbox_token, h.netbox_verify_ssl)]

\* line 221 and the @mcp.tool() decorators that follow it
register_tools(h) == [h EXCEPT !.pc = "registered", !.tools = 21]

\* lines 816-841: run as a script, the host is started (by mcp.run, or by
\* uvicorn when mcp.run raises); imported as a module, it is not
start_host(h) ==
    IF h.as_main THEN [h EXCEPT !.pc = "serving", !.running = TRUE]
    ELSE [h EXCEPT !.pc = "imported"]

Unset == JNull

\* One environment variable, when it is set.
EnvVar(key, x) == IF x = Unset THEN [k \in {} |-> JNull] ELSE key :> x

Environment(url, token, verify, port) ==
    JDict(EnvVar("NETBOX_URL", url) @@ EnvVar("NETBOX_TOKEN", token)
          @@ EnvVar("NETBOX_VERIFY_SSL", verify) @@ EnvVar("MCP_PORT", port))

Environments ==
    {Environment(url, token, verify, port) :
        url \in {Unset, JStr(""), JStr("https://nb/")},
        token \in {Unset, JStr(""), JStr("SITE")},
        verify \in {Unset, JStr("False")},
        port \in {Unset, JStr("abc")}}

DotenvFiles ==
    {JNull, JDict("NETBOX_URL" :> JStr("https://nb/")), JDict("NETBOX_TOKEN" :> JStr(""))}

\* The host the tools run in: started as a script with both required values set.
ServingHost ==
    start_host(register_tools(create_client(validate_config(read_config(load_dotenv_file(
        Boot(Environment(JStr("https://nb/"), JStr("SITE"), Unset, Unset), JNull, TRUE)))))))

(***************************************************************************)
(* The state machine: one action per operation.                            *)
(***************************************************************************)
ToolNames ==
    {"get_sites", "get_site_by_id", "create_site", "get_devices", "get_device_by_id",
     "create_device", "get_device_types", "get_ip_addresses", "create_ip_address",
     "get_prefixes", "get_vlans", "search_objects", "update_object", "delete_object",
     "get_custom_scripts", "get_script_variables", "search_for_object_id",
     "find_custom_script", "execute_custom_script", "get_script_job_status",
     "list_script_jobs"}

Init ==
    /\ host = ServingHost
    /\ op = "none"
    /\ args = <<>>
    /\ reply = [kind |-> "none"]
    /\ requests = <<>>
    /\ result = [kind |-> "none"]
    /\ locals = <<>>

\* The tool host is up and no call is in progress.
Idle == host.pc = "serving" /\ op = "none"

\* Operation `name` runs to completion with arguments a against the remote answer resp.
Invoke(name, a, resp, h) ==
    /\ op' = name
    /\ args' = a
    /\ reply' = resp
    /\ requests' = h.requests
    /\ result' = h.result
    /\ locals' = h.locals
    /\ UNCHANGED host

\* A Resource Client method called directly.
Direct(c) == Handled(<<c.request>>, c.outcome, <<>>)

ClientGet ==
    /\ Idle
    /\ \E endpoint \in Endpoints, id \in {JNull} \cup Ids, resp \in Responses :
           Invoke("client.get", [endpoint |-> endpoint, id |-> id, params |-> JNull], resp,
                  Direct(client_get(endpoint, id, JNull, resp)))

ClientCreate ==
    /\ Idle
    /\ \E endpoint \in Endpoints, resp \in Failures \cup {Http(201, b) : b \in ObjectBodies} :
           Invoke("client.create", [endpoint |-> endpoint, data |-> JDict([name |-> JStr("A")])],
                  resp, Direct(client_create(endpoint, JDict([name |-> JStr("A")]), resp)))

ClientUpdate ==
    /\ Idle
    /\ \E endpoint \in Endpoints, id \in Ids,
          resp \in Failures \cup {Http(200, b) : b \in ObjectBodies} :
           Invoke("client.update",
                  [endpoint |-> endpoint, id |-> id, data |-> JDict([name |-> JStr("B")])],
                  resp, Direct(client_update(endpoint, id, JDict([name |-> JStr("B")]), resp)))

ClientDelete ==
    /\ Idle
    /\ \E endpoint \in Endpoints, id \in Ids, resp \in DeleteResponses :
           Invoke("client.delete", [endpoint |-> endpoint, id |-> id], resp,
                  Direct(client_delete(endpoint, id, resp)))

ClientBulkCreate ==
    /\ Idle
    /\ \E endpoint \in Endpoints, data \in SeqsUpTo({JDict([name |-> JStr("A")])}, MaxItems),
          resp \in Failures \cup {Http(201, JList(q)) : q \in SeqsUpTo(Objects, MaxItems)} :
           Invoke("client.bulk_create", [endpoint |-> endpoint, data |-> JList(data)], resp,
                  Direct(bulk_create(endpoint, JList(data), resp)))

ClientBulkUpdate ==
    /\ Idle
    /\ \E endpoint \in Endpoints, data \in SeqsUpTo({Site(i) : i \in 1..MaxId}, MaxItems),
          resp \in Failures \cup {Http(200, JList(q)) : q \in SeqsUpTo(Objects, MaxItems)} :
           Invoke("client.bulk_update", [endpoint |-> endpoint, data |-> JList(data)], resp,
                  Direct(bulk_update(endpoint, JList(data), resp)))

ClientBulkDelete ==
    /\ Idle
    /\ \E endpoint \in Endpoints, ids \in SeqsUpTo(Ids, MaxItems), resp \in DeleteResponses :
           Invoke("client.bulk_delete", [endpoint |-> endpoint, ids |-> ids], resp,
                  Direct(bulk_delete(endpoint, ids, resp)))

GetSites ==
    /\ Idle
    /\ \E limit \in Limits, params \in RawParams, resp \in Responses :
           Invoke("get_sites", [limit |-> limit, params |-> params], resp,
                  get_sites(limit, params, resp))

GetSiteById ==
    /\ Idle
    /\ \E site_id \in Ids, resp \in Responses :
           Invoke("get_site_by_id", [site_id |-> site_id], resp, get_site_by_id(site_id, resp))

CreateSite ==
    /\ Idle
    /\ \E name \in {JStr("A"), JStr("B")}, description \in {JStr(""), JStr("Main site")},
          resp \in Failures \cup {Http(201, b) : b \in ObjectBodies} :
           Invoke("create_site",
                  [name |-> name, slug |-> JStr("a"), status |-> JStr("active"),
                   description |-> description], resp,
                  create_site(name, JStr("a"), JStr("active"), description, resp))

GetDevices ==
    /\ Idle
    /\ \E limit \in Limits, site_id \in OptionalIds, params \in RawParams, resp \in Responses :
           Invoke("get_devices", [limit |-> limit, site_id |-> site_id, params |-> params], resp,
                  get_devices(limit, site_id, params, resp))

GetDeviceById ==
    /\ Idle
    /\ \E device_id \in Ids, resp \in Responses :
           Invoke("get_device_by_id", [device_id |-> device_id], resp,
                  get_device_by_id(device_id, resp))

CreateDevice ==
    /\ Idle
    /\ \E name \in {JStr("A"), JStr("B")}, device_type_id \in Ids, site_id \in Ids,
          resp \in Failures \cup {Http(201, b) : b \in ObjectBodies} :
           Invoke("create_device",
                  [name |-> name, device_type_id |-> device_type_id, site_id |-> site_id,
                   status |-> JStr("active")], resp,
                  create_device(name, device_type_id, site_id, JStr("active"), resp))

GetDeviceTypes ==
    /\ Idle
    /\ \E limit \in Limits, manufacturer_id \in OptionalIds, resp \in Responses :
           Invoke("get_device_types", [limit |-> limit, manufacturer_id |-> manufacturer_id],
                  resp, get_device_types(limit, manufacturer_id, resp))

GetIpAddresses ==
    /\ Idle
    /\ \E limit \in Limits, vrf_id \in OptionalIds, params \in RawParams, resp \in Responses :
           Invoke("get_ip_addresses", [limit |-> limit, vrf_id |-> vrf_id, params |-> params],
                  resp, get_ip_addresses(limit, vrf_id, params, resp))

CreateIpAddress ==
    /\ Idle
    /\ \E address \in {JStr("10.0.0.1/24"), JStr("10.0.0.2/24")},
          resp \in Failures \cup {Http(201, b) : b \in ObjectBodies} :
           Invoke("create_ip_address",
                  [address |-> address, status |-> JStr("active"), description |-> JStr("")],
                  resp, create_ip_address(address, JStr("active"), JStr(""), resp))

GetPrefixes ==
    /\ Idle
    /\ \E limit \in Limits, vrf_id \in OptionalIds, params \in RawParams, resp \in Responses :
           Invoke("get_prefixes", [limit |-> limit, vrf_id |-> vrf_id, params |-> params],
                  resp, get_prefixes(limit, vrf_id, params, resp))

GetVlans ==
    /\ Idle
    /\ \E limit \in Limits, site_id \in OptionalIds, resp \in Responses :
           Invoke("get_vlans", [limit |-> limit, site_id |-> site_id], resp,
                  get_vlans(limit, site_id, resp))

SearchObjects ==
    /\ Idle
    /\ \E endpoint \in Endpoints, query \in {JStr("A"), JStr("")},
          limit \in {JInt(SearchLimit), JInt(2)}, resp \in Responses :
           Invoke("search_objects", [endpoint |-> endpoint, query |-> query, limit |-> limit],
                  resp, search_objects(endpoint, query, limit, resp))

UpdateObject ==
    /\ Idle
    /\ \E endpoint \in Endpoints, object_id \in Ids,
          data \in {EmptyDict, JDict([name |-> JStr("B")])},
          resp \in Failures \cup {Http(200, b) : b \in ObjectBodies} :
           Invoke("update_object", [endpoint |-> endpoint, object_id |-> object_id, data |-> data],
                  resp, update_object(endpoint, object_id, data, resp))

DeleteObject ==
    /\ Idle
    /\ \E endpoint \in Endpoints, object_id \in Ids, resp \in DeleteResponses :
           Invoke("delete_object", [endpoint |-> endpoint, object_id |-> object_id], resp,
                  delete_object(endpoint, object_id, resp))

GetCustomScripts ==
    /\ Idle
    /\ \E resp \in CatalogResponses :
           Invoke("get_custom_scripts", <<>>, resp, get_custom_scripts(resp))

GetScriptVariables ==
    /\ Idle
    /\ \E script_id \in Ids, resp \in ScriptResponses :
           Invoke("get_script_variables", [script_id |-> script_id], resp,
                  get_script_variables(script_id, resp))

SearchForObjectId ==
    /\ Idle
    /\ \E endpoint \in Endpoints, search_name \in {JStr("A"), JStr("")},
          name_field \in {JStr("name"), JStr("slug")}, resp \in Responses :
           Invoke("search_for_object_id",
                  [endpoint |-> endpoint, search_name |-> search_name, name_field |-> name_field],
                  resp, search_for_object_id(endpoint, search_name, name_field, resp))

FindCustomScript ==
    /\ Idle
    /\ \E query \in Queries, resp \in CatalogResponses :
           Invoke("find_custom_script", [query |-> query], resp, find_custom_script(query, resp))

ExecuteCustomScript ==
    /\ Idle
    /\ \E script_id \in Ids, data \in ScriptData, commit \in {JTrue, JFalse},
          resp \in SubmissionResponses :
           Invoke("execute_custom_script",
                  [script_id |-> script_id, data |-> data, commit |-> commit], resp,
                  execute_custom_script(script_id, data, commit, resp))

GetScriptJobStatus ==
    /\ Idle
    /\ \E job_id \in Ids, resp \in JobResponses :
           Invoke("get_script_job_status", [job_id |-> job_id], resp,
                  get_script_job_status(job_id, resp))

ListScriptJobs ==
    /\ Idle
    /\ \E limit \in Limits, script_name \in {JNull, JStr(""), JStr("CreateSiteAndLocations")},
          resp \in Responses :
           Invoke("list_script_jobs", [limit |-> limit, script_name |-> script_name], resp,
                  list_script_jobs(limit, script_name, resp))

\* The caller has its answer: the call's frame is gone and the host is idle again.
Respond ==
    /\ op # "none"
    /\ op' = "none"
    /\ args' = <<>>
    /\ reply' = [kind |-> "none"]
    /\ requests' = <<>>
    /\ result' = [kind |-> "none"]
    /\ locals' = <<>>
    /\ UNCHANGED host

Next ==
    \/ Respond
    \/ ClientGet \/ ClientCreate \/ ClientUpdate \/ ClientDelete
    \/ ClientBulkCreate \/ ClientBulkUpdate \/ ClientBulkDelete
    \/ GetSites \/ GetSiteById \/ CreateSite
    \/ GetDevices \/ GetDeviceById \/ CreateDevice \/ GetDeviceTypes
    \/ GetIpAddresses \/ CreateIpAddress \/ GetPrefixes \/ GetVlans
    \/ SearchObjects \/ UpdateObject \/ DeleteObject
    \/ GetCustomScripts \/ GetScriptVariables \/ SearchForObjectId \/ FindCustomScript
    \/ ExecuteCustomScript \/ GetScriptJobStatus \/ ListScriptJobs

Spec == Init /\ [][Next]_vars

\* The process from its first statement on.
StartupInit ==
    /\ host \in {Boot(environ, dotenv, as_main) :
                    environ \in Environments, dotenv \in DotenvFiles, as_main \in BOOLEAN}
    /\ op = "none"
    /\ args = <<>>
    /\ reply = [kind |-> "none"]
    /\ requests = <<>>
    /\ result = [kind |-> "none"]
    /\ locals = <<>>

NoCall == UNCHANGED <<op, args, reply, requests, result, locals>>

LoadDotenv == host.pc = "start" /\ host' = load_dotenv_file(host) /\ NoCall

ReadConfig == host.pc = "loaded" /\ host' = read_config(host) /\ NoCall

ValidateConfig == host.pc = "configured" /\ host' = validate_config(host) /\ NoCall

CreateClient == host.pc = "validated" /\ host' = create_client(host) /\ NoCall

RegisterTools == host.pc = "client" /\ host' = register_tools(host) /\ NoCall

StartHost == host.pc = "registered" /\ host' = start_host(host) /\ NoCall

StartupNext ==
    \/ LoadDotenv \/ ReadConfig \/ ValidateConfig \/ CreateClient \/ RegisterTools
    \/ StartHost
    \/ Next

StartupSpec == StartupInit /\ [][StartupNext]_vars

(***************************************************************************)
(* Properties.  A state with op # "none" is one completed call.            *)
(***************************************************************************)
Returned == result.kind = "return"

\* The envelope a tool returned, as its key-value map.
Envelope == result.val.map

Succeeded == Envelope["success"] = JTrue

\* The remote answered with a 2xx status (no exception from raise_for_status).
ReplyOk == reply.kind = "http" /\ ~(reply.status >= 400 /\ reply.status < 600)

\* ... and its body is JSON.
ReplyJson == ReplyOk /\ reply.body # NotJson

\* Tools whose payload does not travel under `data`.
MatchTools == {"search_for_object_id", "find_custom_script"}

\* C1 as stated: every tool operation returns one envelope with a boolean
\* `success` and exactly one of `data` (success true) or `error` (success false).
C1_Original ==
    op \in ToolNames =>
        /\ Returned
        /\ IsDict(result.val)
        /\ "success" \in DOMAIN Envelope
        /\ Envelope["success"].t = "bool"
        /\ Succeeded => ("data" \in DOMAIN Envelope /\ "error" \notin DOMAIN Envelope)
        /\ ~Succeeded => ("error" \in DOMAIN Envelope /\ "data" \notin DOMAIN Envelope)

\* C1, amended: every tool operation returns one envelope with a boolean
\* `success`, never both `data` and `error`; `error` implies success = false;
\* a failure carries `error` except delete_object's "Deletion failed" envelope
\* (a 2xx answer other than 204), which has only `message`; a success carries
\* `data`, except get_script_variables (`variables`), search_for_object_id and
\* find_custom_script (`matches`) and delete_object (`message`).
C1_Envelope ==
    op \in ToolNames =>
        /\ Returned
        /\ IsDict(result.val)
        /\ "success" \in DOMAIN Envelope
        /\ Envelope["success"].t = "bool"
        /\ ~("data" \in DOMAIN Envelope /\ "error" \in DOMAIN Envelope)
        /\ "error" \in DOMAIN Envelope => ~Succeeded
        /\ ~Succeeded =>
               \/ "error" \in DOMAIN Envelope
               \/ /\ op = "delete_object"
                  /\ ReplyOk /\ reply.status # 204
                  /\ Envelope = [success |-> JFalse, message |-> JStr("Deletion failed")]
        /\ Succeeded =>
               CASE op = "get_script_variables" ->
                        "variables" \in DOMAIN Envelope /\ "data" \notin DOMAIN Envelope
                 [] op \in MatchTools ->
                        "matches" \in DOMAIN Envelope /\ "data" \notin DOMAIN Envelope
                 [] op = "delete_object" ->
                        DOMAIN Envelope = {"success", "message"}
                 [] OTHER -> "data" \in DOMAIN Envelope

\* delete_object answered 200: a failure envelope without `error`.
C1_Witness ==
    /\ op = "delete_object"
    /\ reply.kind = "http" /\ reply.status = 200
    /\ Returned
    /\ Envelope["success"] = JFalse
    /\ "error" \notin DOMAIN Envelope

\* The exception a failed transport raises, by the remote's answer.
TransportFailed ==
    \/ reply.kind = "conn_error"
    \/ reply.kind = "http" /\ reply.status >= 400 /\ reply.status < 600
    \/ ReplyOk /\ reply.body = NotJson /\ op # "delete_object"

TransportMessage ==
    IF reply.kind = "conn_error" THEN ConnectionErrorMsg
    ELSE IF reply.status >= 400 THEN HTTPErrorMsg(reply.status)
    ELSE JSONDecodeErrorMsg

\* An exception raised inside the handler, after a good transport answer.
HandlerFailure ==
    IF ~ReplyJson THEN <<>>
    ELSE IF op = "get_script_job_status" /\ IsDict(reply.body)
            /\ "status" \in DOMAIN reply.body.map /\ ~IsDict(reply.body.map["status"])
    THEN <<NoAttributeMsg(reply.body.map["status"], "get")>>
    ELSE IF op = "get_script_variables" /\ IsDict(reply.body)
            /\ "vars" \in DOMAIN reply.body.map /\ ~IsDict(reply.body.map["vars"])
    THEN <<NoAttributeMsg(reply.body.map["vars"], "items")>>
    ELSE IF op \in {"get_sites", "search_objects", "get_custom_scripts", "find_custom_script"}
            /\ reply.body.t \in {"null", "int"}
    THEN <<NotIterableMsg(reply.body)>>
    ELSE IF op \in {"get_custom_scripts", "find_custom_script", "search_for_object_id"}
            /\ IsList(reply.body) /\ reply.body.items # <<>>
            /\ \A i \in 1..Len(reply.body.items) : reply.body.items[i] = JInt(7)
    THEN <<NoAttributeMsg(JInt(7), "get")>>
    ELSE <<>>

\* C2: when the client call raises (connection failure, 4xx/5xx status, body
\* that is not JSON) or the handler itself raises, the tool returns an envelope
\* with success = false and error = the exception's message, without data, and
\* no exception leaves the handler.
C2_ErrorEnvelope ==
    op \in ToolNames =>
        /\ Returned
        /\ TransportFailed =>
               /\ Envelope["success"] = JFalse
               /\ "error" \in DOMAIN Envelope /\ Envelope["error"] = TransportMessage
               /\ "data" \notin DOMAIN Envelope
               /\ op # "execute_custom_script" => DOMAIN Envelope = {"success", "error"}
        /\ HandlerFailure # <<>> =>
               Envelope = [success |-> JFalse, error |-> HandlerFailure[1]]

\* get_sites met a 404: the HTTPError's message comes back in the envelope.
C2_Witness ==
    /\ op = "get_sites"
    /\ reply.kind = "http" /\ reply.status = 404
    /\ Returned
    /\ Envelope = [success |-> JFalse, error |-> HTTPErrorMsg(404)]

\* C3 as stated: delete and bulk_delete return true iff the status is 204, and
\* every other status raises: false is never returned.
C3_Original ==
    op \in {"client.delete", "client.bulk_delete"} =>
        /\ result = Return(JTrue) <=> (reply.kind = "http" /\ reply.status = 204)
        /\ ~(reply.kind = "http" /\ reply.status = 204) => Raised(result)
        /\ result # Return(JFalse)

\* C3, amended: delete and bulk_delete return true iff the status is 204; they
\* raise iff the connection fails or the status is 4xx/5xx; for every other
\* status (200, 201) they return false.
C3_DeleteStatus ==
    op \in {"client.delete", "client.bulk_delete"} =>
        /\ result = Return(JTrue) <=> (reply.kind = "http" /\ reply.status = 204)
        /\ Raised(result) <=>
               \/ reply.kind = "conn_error"
               \/ reply.kind = "http" /\ reply.status >= 400 /\ reply.status < 600
        /\ Raised(result) => result.msg = TransportMessage
        /\ (ReplyOk /\ reply.status # 204) => result = Return(JFalse)

\* bulk_delete answered 200 and returned false.
C3_Witness ==
    /\ op = "client.bulk_delete"
    /\ reply.kind = "http" /\ reply.status = 200
    /\ result = Return(JFalse)

\* A JSON array whose elements are all objects.
IsObjectArray(x) == IsList(x) /\ \A i \in 1..Len(x.items) : IsDict(x.items[i])

\* A {results: [...]} page wrapper.
IsPageWrapper(x) ==
    IsDict(x) /\ "results" \in DOMAIN x.map /\ IsObjectArray(x.map["results"])

\* C4: get without an id returns a sequence: a bare array of objects comes back
\* as it is, a {results: [...]} page wrapper comes back as its inner sequence;
\* with an id the payload comes back as it is, even if it has a `results` key.
C4_GetNormalizes ==
    (op = "client.get" /\ ReplyJson) =>
        /\ (args.id = JNull /\ IsObjectArray(reply.body)) => result = Return(reply.body)
        /\ (args.id = JNull /\ IsPageWrapper(reply.body)) =>
               /\ result = Return(reply.body.map["results"])
               /\ IsList(result.val)
        /\ args.id # JNull => result = Return(reply.body)

\* A page wrapper with a non-empty results sequence, read without an id.
C4_Witness ==
    /\ op = "client.get"
    /\ args.id = JNull
    /\ ReplyJson
    /\ IsPageWrapper(reply.body)
    /\ Len(reply.body.map["results"].items) > 0
    /\ result = Return(reply.body.map["results"])

\* The submission was accepted: execute_custom_script got a JSON answer.
Submitted == op = "execute_custom_script" /\ ReplyJson

HasJobObject(r) == IsDict(r) /\ "job" \in DOMAIN r.map /\ IsDict(r.map["job"])

HasTopLevelId(r) == IsDict(r) /\ "id" \in DOMAIN r.map

\* C5 as stated: if R has a nested job object, job_id is that object's id;
\* otherwise, if R has a top-level id, job_id is that id (also when `job` is
\* present but no object); otherwise job_id is null; success is true throughout.
C5_Original ==
    Submitted =>
        /\ Returned /\ Succeeded
        /\ Envelope["job_id"] =
               IF HasJobObject(reply.body) THEN DictGet(reply.body.map["job"], "id", JNull)
               ELSE IF HasTopLevelId(reply.body) THEN reply.body.map["id"]
               ELSE JNull

\* C5, amended: if R has a `job` entry, job_id is that entry's id when the entry
\* is an object and null when it is not (the top-level id is then not used);
\* otherwise, if R has a top-level id, job_id is that id; otherwise job_id is
\* null; success is true throughout.
C5_JobId ==
    Submitted =>
        /\ Returned /\ Succeeded
        /\ Envelope["job_id"] =
               IF HasJobObject(reply.body) THEN DictGet(reply.body.map["job"], "id", JNull)
               ELSE IF IsDict(reply.body) /\ "job" \in DOMAIN reply.body.map THEN JNull
               ELSE IF HasTopLevelId(reply.body) THEN reply.body.map["id"]
               ELSE JNull
        /\ Envelope["data"] = reply.body

\* {job: null, id: 99} was answered; the reported job_id is null.
C5_Witness ==
    /\ Submitted
    /\ reply.body = JDict([job |-> JNull, id |-> JInt(99)])
    /\ Returned /\ Succeeded
    /\ Envelope["job_id"] = JNull

\* The characters of a string value, case folded.
Folded(x) == LowerChars(Spell[x.s])

\* w occurs in text as a substring (both sequences of characters).
Occurs(w, text) ==
    \E i \in 0..(Len(text) - Len(w)) : SubSeq(text, i + 1, i + Len(w)) = w

\* The whitespace-delimited words of q, as <<first, last>> index pairs: the
\* maximal runs of characters that are not whitespace.
WordsOf(q) ==
    {p \in (1..Len(q)) \X (1..Len(q)) :
        /\ p[1] <= p[2]
        /\ \A k \in p[1]..p[2] : q[k] \notin Whitespace
        /\ p[1] = 1 \/ q[p[1] - 1] \in Whitespace
        /\ p[2] = Len(q) \/ q[p[2] + 1] \in Whitespace}

RECURSIVE WordSum(_, _, _, _)
WordSum(ws, q, name, description) ==
    IF ws = {} THEN 0
    ELSE LET p == CHOOSE x \in ws : TRUE
             w == SubSeq(q, p[1], p[2])
         IN  (IF Len(w) > 2
              THEN (IF Occurs(w, name) THEN 2 ELSE 0) + (IF Occurs(w, description) THEN 1 ELSE 0)
              ELSE 0)
             + WordSum(ws \ {p}, q, name, description)

\* score(q, s) of the claim, for a query value and a descriptor
Score(query, s) ==
    LET q == Folded(query)
        name == Folded(s.map["name"])
        description == Folded(s.map["description"])
        display == Folded(s.map["display"])
    IN  (IF Occurs(q, name) THEN 10 ELSE 0)
        + (IF Occurs(q, description) THEN 5 ELSE 0)
        + (IF Occurs(q, display) THEN 3 ELSE 0)
        + WordSum(WordsOf(q), q, name, description)

\* find_custom_script went through: it scored the catalog and returned matches.
Found == op = "find_custom_script" /\ Returned /\ Succeeded /\ "matches" \in DOMAIN Envelope

\* The catalog find_custom_script scored, and the matches it returned.
Catalog == locals.all_scripts.items

Matches == Envelope["matches"].items

IsCreateSiteScript(s) ==
    /\ s.map["name"] = JStr("CreateSiteAndLocations")
    /\ s.map["description"] = JStr("Script to create a new site and associated floors")

\* C6: the relevance find_custom_script computes for a script is score(q, s):
\* 10, 5 and 3 for the query as a substring of name, description and display,
\* plus 2 and 1 for each query word longer than 2 characters in name and
\* description, case-insensitively; a script is among the matches iff its
\* score is positive; for "create site" the script CreateSiteAndLocations is
\* returned.
C6_Score ==
    Found =>
        /\ \A j \in 1..Len(locals.sorted.items) :
               locals.sorted.items[j].map["relevance"] =
                   JInt(Score(args.query, pop_relevance(locals.sorted.items[j])))
        /\ \A i \in 1..Len(Catalog) :
               Score(args.query, Catalog[i]) > 0 <=>
                   \E j \in 1..Len(Matches) : Matches[j] = Catalog[i]
        /\ \A j \in 1..Len(Matches) : \E i \in 1..Len(Catalog) : Matches[j] = Catalog[i]
        /\ args.query = JStr("create site") =>
               \A i \in 1..Len(Catalog) :
                   IsCreateSiteScript(Catalog[i]) =>
                       \E j \in 1..Len(Matches) : Matches[j] = Catalog[i]

\* "create site" against a catalog with CreateSiteAndLocations and
\* BackupConfigs: the first is returned, the second (score 0) is not.
C6_Witness ==
    /\ Found
    /\ args.query = JStr("create site")
    /\ \E i \in 1..Len(Catalog) :
           /\ IsCreateSiteScript(Catalog[i])
           /\ \E j \in 1..Len(Matches) : Matches[j] = Catalog[i]
    /\ \E i \in 1..Len(Catalog) :
           /\ Catalog[i].map["name"] = JStr("BackupConfigs")
           /\ \A j \in 1..Len(Matches) : Matches[j] # Catalog[i]

\* Catalog positions with a positive score.
Kept == {i \in 1..Len(Catalog) : Score(args.query, Catalog[i]) > 0}

\* How many kept scripts come before script i: those with a higher score, and
\* those with the same score that stand earlier in the catalog.
Rank(i) ==
    Cardinality({j \in Kept :
        \/ Score(args.query, Catalog[j]) > Score(args.query, Catalog[i])
        \/ Score(args.query, Catalog[j]) = Score(args.query, Catalog[i]) /\ j < i})

\* C7: the matches are ordered by score descending, equal scores keep catalog
\* order, no match has a `relevance` field, and count is the number of matches.
C7_Order ==
    Found =>
        /\ Len(Matches) = Cardinality(Kept)
        /\ \A i \in Kept : Matches[Rank(i) + 1] = Catalog[i]
        /\ \A j \in 1..(Len(Matches) - 1) :
               Score(args.query, Matches[j]) >= Score(args.query, Matches[j + 1])
        /\ \A j \in 1..Len(Matches) : "relevance" \notin DOMAIN Matches[j].map
        /\ Envelope["count"] = JInt(Len(Matches))

\* Three matches: the first script of the catalog scores lowest and went last;
\* the two others, different scripts of equal score, kept their catalog order.
C7_Witness ==
    /\ Found
    /\ Len(Catalog) = 3 /\ Len(Matches) = 3
    /\ Catalog[2] # Catalog[3]
    /\ Score(args.query, Catalog[2]) = Score(args.query, Catalog[3])
    /\ Score(args.query, Catalog[1]) < Score(args.query, Catalog[2])
    /\ Matches = <<Catalog[2], Catalog[3], Catalog[1]>>

\* get_script_variables read a script object whose vars is a mapping (or absent).
Described ==
    /\ op = "get_script_variables"
    /\ ReplyJson
    /\ IsDict(reply.body)
    /\ IsDict(DictGet(reply.body, "vars", EmptyDict))

DeclaredVars == DictGet(reply.body, "vars", EmptyDict).map

Keywords == <<"tenant", "region", "site", "device">>

LookupHelp ==
    <<"Use search_objects('dcim/tenants', 'query') to find tenant ID",
      "Use search_objects('dcim/regions', 'query') to find region ID",
      "Use get_sites() or search_objects('dcim/sites', 'query') to find site ID",
      "Use get_devices() or search_objects('dcim/devices', 'query') to find device ID">>

\* The keywords that occur in the parameter's name, by position in Keywords.
KeywordsIn(var_name) ==
    {k \in 1..Len(Keywords) : Occurs(Spell[Keywords[k]], LowerChars(Spell[var_name]))}

\* The help text the priority order selects.
SelectedHelp(var_name, var_type) ==
    IF var_type = JStr("ObjectVar")
    THEN IF KeywordsIn(var_name) = {}
         THEN FStr("Use search_objects() to find the {} object ID", <<JStr(var_name)>>)
         ELSE JStr(LookupHelp[CHOOSE k \in KeywordsIn(var_name) :
                                  \A other \in KeywordsIn(var_name) : k <= other])
    ELSE IF var_type = JStr("StringVar") THEN JStr("Provide as a string value")
    ELSE IF var_type = JStr("IntegerVar") THEN JStr("Provide as an integer value")
    ELSE IF var_type = JStr("BooleanVar") THEN JStr("Provide as true or false")
    ELSE FStr("Provide value for {}", <<var_type>>)

\* The fixed example of the scalar types.
ScalarExample(var_name, var_type) ==
    IF var_type = JStr("StringVar") THEN FStr("\"example_{}\"", <<JStr(var_name)>>)
    ELSE IF var_type = JStr("IntegerVar") THEN JStr("10")
    ELSE JStr("true")

\* C8: get_script_variables emits exactly one guidance record per declared
\* parameter; for an ObjectVar the first of tenant, region, site, device found
\* in the lowered name selects the lookup hint and the generic search hint is
\* used when none is found; StringVar, IntegerVar and BooleanVar get their fixed
\* template; any other type gets the generic placeholder hint.
C8_Guidance ==
    Described =>
        /\ Returned /\ Succeeded
        /\ IsDict(Envelope["variables"])
        /\ DOMAIN Envelope["variables"].map = DOMAIN DeclaredVars
        /\ \A n \in DOMAIN DeclaredVars :
               LET g == Envelope["variables"].map[n].map
               IN  /\ g["type"] = DeclaredVars[n]
                   /\ g["help"] = SelectedHelp(n, DeclaredVars[n])
                   /\ DeclaredVars[n] \in {JStr("StringVar"), JStr("IntegerVar"), JStr("BooleanVar")}
                          => g["example"] = ScalarExample(n, DeclaredVars[n])
        /\ ("tenant" \in DOMAIN DeclaredVars /\ DeclaredVars["tenant"] = JStr("ObjectVar")) =>
               Envelope["variables"].map["tenant"].map["help"] = JStr(LookupHelp[1])

\* An ObjectVar named site_tenant, whose name holds both "site" and "tenant",
\* got the tenant hint.
C8_Witness ==
    /\ Described
    /\ "site_tenant" \in DOMAIN DeclaredVars
    /\ DeclaredVars["site_tenant"] = JStr("ObjectVar")
    /\ Returned /\ Succeeded
    /\ Envelope["variables"].map["site_tenant"].map["help"] = JStr(LookupHelp[1])

ScriptNotFound == JStr("Script not found")

\* C9 as stated: when no script has the id (the remote answers 404 for it), the
\* result is the not-found error, distinguished from a transport error; guidance
\* is emitted only when a script was found.
C9_Original ==
    op = "get_script_variables" =>
        /\ Returned
        /\ (reply.kind = "http" /\ reply.status = 404) =>
               /\ ~Succeeded
               /\ Envelope["error"] = ScriptNotFound
               /\ Envelope["error"] # HTTPErrorMsg(404)
        /\ "variables" \in DOMAIN Envelope => (ReplyJson /\ IsDict(reply.body))

\* C9, amended: get_script_variables reads the script by its id, with one GET of
\* extras/scripts/{id}; the result is the "Script not found" error exactly when
\* that read succeeds with a payload that is not an object; a 404 for an unknown
\* id comes back as the transport error's message; guidance is emitted only
\* when the payload is an object.
C9_NotFound ==
    op = "get_script_variables" =>
        /\ Returned
        /\ Len(requests) = 1
        /\ requests[1].method = "GET"
        /\ requests[1].url = build_url(JStr("extras/scripts"), args.script_id)
        /\ ("error" \in DOMAIN Envelope /\ Envelope["error"] = ScriptNotFound)
               <=> (ReplyJson /\ ~IsDict(reply.body))
        /\ (reply.kind = "http" /\ reply.status = 404) =>
               Envelope = [success |-> JFalse, error |-> HTTPErrorMsg(404)]
        /\ "variables" \in DOMAIN Envelope => (ReplyJson /\ IsDict(reply.body))

\* The remote answered 404 for the id: the envelope carries the HTTP error.
C9_Witness ==
    /\ op = "get_script_variables"
    /\ reply.kind = "http" /\ reply.status = 404
    /\ Returned
    /\ Envelope["error"] = HTTPErrorMsg(404)
    /\ Envelope["error"] # ScriptNotFound

\* get_custom_scripts read a list of script objects, bare or in a page wrapper.
Listed ==
    /\ op = "get_custom_scripts"
    /\ ReplyJson
    /\ IsObjectArray(reply.body) \/ IsPageWrapper(reply.body)

RemoteScripts ==
    IF IsList(reply.body) THEN reply.body.items ELSE reply.body.map["results"].items

\* The descriptor fields copied from the remote script, null when missing.
CopiedFields ==
    [id |-> "id", name |-> "name", display |-> "display", module |-> "module",
     last_result |-> "result"]

\* One descriptor per remote script, in remote order, and count is their number.
OnePerScript ==
    /\ Returned /\ Succeeded
    /\ IsList(Envelope["data"])
    /\ Len(Envelope["data"].items) = Len(RemoteScripts)
    /\ Envelope["count"] = JInt(Len(RemoteScripts))
    /\ \A i \in 1..Len(RemoteScripts) :
           \A f \in DOMAIN CopiedFields :
               Envelope["data"].items[i].map[f] = DictGet(RemoteScripts[i], CopiedFields[f], JNull)

\* The optional fields of descriptor i, with `blank` for a missing description.
OptionalFields(i, blank) ==
    LET d == Envelope["data"].items[i].map
        remote == RemoteScripts[i]
    IN  /\ d["description"] = DictGet(remote, "description", blank)
        /\ d["vars"] = DictGet(remote, "vars", EmptyDict)
        /\ d["is_executable"] = DictGet(remote, "is_executable", JFalse)

\* C10 as stated: one descriptor per remote script, in remote order, count
\* their number; a missing description becomes the empty description, missing
\* vars the empty mapping, a missing executability flag false.
C10_Original ==
    Listed =>
        /\ OnePerScript
        /\ \A i \in 1..Len(RemoteScripts) : OptionalFields(i, JStr(""))

\* C10, amended: as stated, except that a missing description becomes the text
\* "No description available".
C10_Defaults ==
    Listed =>
        /\ OnePerScript
        /\ \A i \in 1..Len(RemoteScripts) :
               OptionalFields(i, JStr("No description available"))

\* A catalog of two scripts, the second without description, vars and flag.
C10_Witness ==
    /\ Listed
    /\ Len(RemoteScripts) = 2
    /\ DOMAIN RemoteScripts[2].map = {"id", "name", "display"}
    /\ Returned /\ Succeeded
    /\ Envelope["count"] = JInt(2)
    /\ Envelope["data"].items[2].map["description"] = JStr("No description available")
    /\ Envelope["data"].items[2].map["vars"] = EmptyDict
    /\ Envelope["data"].items[2].map["is_executable"] = JFalse

\* The list-style reads and the named numeric filter each one takes.
ListReads == {"get_sites", "get_devices", "get_device_types", "get_ip_addresses",
              "get_prefixes", "get_vlans"}

NamedFilters ==
    [get_sites |-> {}, get_devices |-> {"site_id"}, get_device_types |-> {"manufacturer_id"},
     get_ip_addresses |-> {"vrf_id"}, get_prefixes |-> {"vrf_id"}, get_vlans |-> {"site_id"}]

\* The named filters the caller supplied: every one that is not None.
Supplied == {k \in NamedFilters[op] : args[k] # JNull}

\* The caller's raw filter mapping, empty when none was given.
RawFilters == IF "params" \in DOMAIN args /\ IsDict(args.params) THEN args.params.map
              ELSE EmptyDict.map

\* limit and the supplied named filters first, the raw mapping laid over them.
OverlaidQuery ==
    [k \in {"limit"} \cup Supplied \cup DOMAIN RawFilters |->
        IF k \in DOMAIN RawFilters THEN RawFilters[k] ELSE args[k]]

\* C11: the query of a list read holds limit and every named filter the caller
\* supplied (0 included), overlaid by the raw mapping, whose value wins for a
\* key present in both.
C11_Query ==
    op \in ListReads =>
        /\ Len(requests) = 1
        /\ requests[1].params = JDict(OverlaidQuery)

\* C12: every tool invocation issues exactly one outbound request, whether it
\* succeeds or fails (no retry, no second request); find_custom_script's request
\* is the catalog read of its nested call; execute_custom_script issues only
\* the submission POST.
C12_OneRequest ==
    op \in ToolNames =>
        /\ Len(requests) = 1
        /\ op = "find_custom_script" =>
               requests[1] = Request("GET", build_url(JStr("extras/scripts"), JNull), JNull, JNull)
        /\ op = "execute_custom_script" =>
               /\ requests[1].method = "POST"
               /\ requests[1].url =
                      build_url(FStr("extras/scripts/{}", <<args.script_id>>), JNull)

\* A submission the remote answered with 500: one POST went out, none followed.
C12_Witness ==
    /\ op = "execute_custom_script"
    /\ reply.kind = "http" /\ reply.status = 500
    /\ Len(requests) = 1
    /\ requests[1].method = "POST"
    /\ Returned /\ ~Succeeded

\* A payload that is neither an array nor a page wrapper with a results entry,
\* of a kind the membership test `'results' in data` accepts: an object without
\* `results`, or a string that does not contain "results".
IsOddShape(x) ==
    \/ IsDict(x) /\ "results" \notin DOMAIN x.map
    \/ IsStr(x) /\ ~Occurs(Spell["results"], Spell[x.s])

\* A payload the membership test cannot be applied to: null or a number.
IsScalarShape(x) == x.t \in {"null", "int", "bool"}

GenericListReads == {"get_sites", "get_devices", "search_objects", "list_script_jobs"}

EmptyingTools == {"get_custom_scripts", "search_for_object_id"}

\* The list an emptying tool returns: `data` or `matches`.
ReturnedList ==
    IF op = "get_custom_scripts" THEN Envelope["data"] ELSE Envelope["matches"]

\* C13 as stated: a listing that succeeds at the transport level with a payload
\* that is neither an array nor a page wrapper does not fail and gives the
\* empty list, in get_custom_scripts and search_for_object_id (count 0) and in
\* the generic list reads likewise.
C13_Original ==
    (ReplyJson /\ ~IsList(reply.body)
       /\ ~(IsDict(reply.body) /\ "results" \in DOMAIN reply.body.map)) =>
        /\ op \in EmptyingTools =>
               /\ Returned /\ Succeeded
               /\ ReturnedList = JList(<<>>)
               /\ Envelope["count"] = JInt(0)
        /\ op \in GenericListReads =>
               /\ Returned /\ Succeeded
               /\ Envelope["data"] = JList(<<>>)

\* C13, amended: for a payload that is an object without `results` (or a string
\* without "results" in it), get_custom_scripts and search_for_object_id return
\* success with the empty list and count 0, and the generic list reads return
\* success with the payload itself as data, not the empty list; for a payload
\* that is null or a number every one of these tools returns the error
\* envelope of the TypeError raised by the `'results' in data` test.
C13_OddShapes ==
    (op \in EmptyingTools \cup GenericListReads /\ ReplyJson) =>
        /\ (IsOddShape(reply.body) /\ op \in EmptyingTools) =>
               /\ Returned /\ Succeeded
               /\ ReturnedList = JList(<<>>)
               /\ Envelope["count"] = JInt(0)
        /\ (IsOddShape(reply.body) /\ op \in GenericListReads) =>
               /\ Returned /\ Succeeded
               /\ Envelope["data"] = reply.body
        /\ IsScalarShape(reply.body) =>
               /\ Returned
               /\ Envelope = [success |-> JFalse, error |-> NotIterableMsg(reply.body)]

\* get_custom_scripts got an object without `results` and returned no script.
C13_Witness ==
    /\ op = "get_custom_scripts"
    /\ ReplyJson
    /\ reply.body = JDict([detail |-> JStr("Not found.")])
    /\ Returned /\ Succeeded
    /\ Envelope["data"] = JList(<<>>)
    /\ Envelope["count"] = JInt(0)

\* The configuration is loaded: the .env file has been laid over the environment.
ConfigLoaded == host.pc # "start"

\* The required variables that are unset or empty in the loaded configuration.
MissingRequired ==
    {k \in {"NETBOX_URL", "NETBOX_TOKEN"} : ~Truthy(getenv(host.environ, k, JNull))}

Emitted(k) ==
    \E i \in 1..Len(host.output) :
        host.output[i] = IF k = "NETBOX_URL" THEN JStr("NETBOX_URL not configured!")
                         ELSE JStr("NETBOX_TOKEN not configured!")

\* Nothing of the server exists: no client, no registered tool, no running host.
NothingBuilt == host.client = JNull /\ host.tools = 0 /\ ~host.running

\* With a required value missing the process gets no further than validation,
\* and when it has ended it has named a missing variable and exited non-zero.
AbortsWhenMissing ==
    (ConfigLoaded /\ MissingRequired # {}) =>
        /\ NothingBuilt
        /\ host.pc \in {"loaded", "configured", "exited"}
        /\ host.pc = "exited" =>
               /\ host.exit_code # JNull /\ host.exit_code # JInt(0)
               /\ \E k \in MissingRequired : Emitted(k)

\* The host runs only with both values present, on a client built from them.
RunsOnlyConfigured ==
    host.running =>
        /\ MissingRequired = {}
        /\ host.tools = 21
        /\ host.client = new_client(getenv(host.environ, "NETBOX_URL", JNull),
                                    getenv(host.environ, "NETBOX_TOKEN", JNull),
                                    verify_ssl_of(host.environ))

\* A step taken while the host runs (a tool invocation or its return) leaves
\* the connection configuration as it was.
ConfigurationKept == host.running => host'.client = host.client

\* C14: if the base URL or the token is unset or empty once the configuration
\* is loaded, the process emits a diagnostic naming the missing variable and
\* exits non-zero before the client is built, any tool is registered or the
\* host is started; the host is started only with both values present; no tool
\* invocation changes the connection configuration.
C14_Startup ==
    /\ [](AbortsWhenMissing /\ RunsOnlyConfigured)
    /\ [][ConfigurationKept]_vars

\* get_script_job_status read a job record: the remote answered with an object.
JobRead == op = "get_script_job_status" /\ ReplyJson /\ IsDict(reply.body)

\* status.value of a job record; null when the record has no status, or a
\* status that has no value.
StatusValueOf(job) ==
    IF "status" \in DOMAIN job.map /\ IsDict(job.map["status"])
    THEN DictGet(job.map["status"], "value", JNull)
    ELSE JNull

\* C15: get_script_job_status issues one read of the job record and, for every
\* record the remote returns (also one whose status is a string or null),
\* returns success with data = the record, status = its status.value (null
\* without one) and completed = its completed field.
C15_JobStatus ==
    op = "get_script_job_status" =>
        /\ requests = <<Request("GET", build_url(JStr("core/jobs"), args.job_id), JNull, JNull)>>
        /\ JobRead =>
               /\ Returned /\ Succeeded
               /\ Envelope["data"] = reply.body
               /\ Envelope["status"] = StatusValueOf(reply.body)
               /\ Envelope["completed"] = DictGet(reply.body, "completed", JNull)

\* find_custom_script ran on a catalog that get_custom_scripts could list: a
\* list of script objects, bare or in a page wrapper.
CatalogListed ==
    /\ op = "find_custom_script"
    /\ ReplyJson
    /\ IsObjectArray(reply.body) \/ IsPageWrapper(reply.body)

ListedScripts ==
    IF IsList(reply.body) THEN reply.body.items ELSE reply.body.map["results"].items

\* The descriptor of remote script r has a null name, display or description.
HasNullText(r) ==
    \/ DictGet(r, "name", JNull) = JNull
    \/ DictGet(r, "display", JNull) = JNull
    \/ ("description" \in DOMAIN r.map /\ r.map["description"] = JNull)

\* C16: find_custom_script is all-or-nothing: if one descriptor of the catalog
\* has a null name, display or description, the search returns {success: false,
\* error} without matches, whatever the other scripts are; if the nested
\* get_custom_scripts call fails, its error envelope is returned unchanged.
C16_AllOrNothing ==
    op = "find_custom_script" =>
        /\ (CatalogListed /\ \E i \in 1..Len(ListedScripts) : HasNullText(ListedScripts[i])) =>
               /\ Returned
               /\ Envelope = [success |-> JFalse, error |-> NoAttributeMsg(JNull, "lower")]
        /\ TransportFailed =>
               /\ Returned
               /\ Envelope = [success |-> JFalse, error |-> TransportMessage]
        /\ (Returned /\ ~Succeeded /\ ~CatalogListed) =>
               result = get_custom_scripts(reply).result

\* "SITE" against a catalog of SiteAudit, which matches, and a script without
\* name: the search failed and returned no match.
C16_Witness ==
    /\ CatalogListed
    /\ args.query = JStr("SITE")
    /\ Len(ListedScripts) = 2
    /\ ListedScripts[1] = SiteAudit
    /\ HasNullText(ListedScripts[2])
    /\ Returned /\ ~Succeeded
    /\ "matches" \notin DOMAIN Envelope

\* search_for_object_id read a list of objects, bare or in a page wrapper.
Searched ==
    /\ op = "search_for_object_id"
    /\ ReplyJson
    /\ IsObjectArray(reply.body) \/ IsPageWrapper(reply.body)

SearchedObjects ==
    IF IsList(reply.body) THEN reply.body.items ELSE reply.body.map["results"].items

\* The name of a match: the object's name, or its display when the name is
\* missing or empty.
NameOrDisplay(x) ==
    IF "name" \in DOMAIN x.map /\ x.map["name"] \notin {JNull, JStr("")}
    THEN x.map["name"]
    ELSE DictGet(x, "display", JNull)

\* C17: search_for_object_id does not depend on name_field: the request is the
\* free-text query q = search_name with limit 10 and the result is what the
\* call with name_field = "name" gives; each match is {id, name, display, url}
\* with name falling back to display, and count is the number of matches.
C17_NameFieldUnused ==
    op = "search_for_object_id" =>
        /\ requests = <<Request("GET", build_url(args.endpoint, JNull),
                                JDict([q |-> args.search_name, limit |-> JInt(10)]), JNull)>>
        /\ result = search_for_object_id(args.endpoint, args.search_name, JStr("name"),
                                         reply).result
        /\ Searched =>
               /\ Returned /\ Succeeded
               /\ Envelope["count"] = JInt(Len(SearchedObjects))
               /\ Len(Envelope["matches"].items) = Len(SearchedObjects)
               /\ \A i \in 1..Len(SearchedObjects) :
                      Envelope["matches"].items[i] =
                          JDict([id |-> DictGet(SearchedObjects[i], "id", JNull),
                                 name |-> NameOrDisplay(SearchedObjects[i]),
                                 display |-> DictGet(SearchedObjects[i], "display", JNull),
                                 url |-> DictGet(SearchedObjects[i], "url", JNull)])

\* A call with name_field = "slug" on two objects, the second with an empty
\* name: its match is named by its display.
C17_Witness ==
    /\ Searched
    /\ args.name_field = JStr("slug")
    /\ Len(SearchedObjects) = 2
    /\ DictGet(SearchedObjects[2], "name", JNull) = JStr("")
    /\ Returned /\ Succeeded
    /\ Envelope["matches"].items[2].map["name"] = SearchedObjects[2].map["display"]

============================================================================
